---- MODULE Spec2Model ----
(***************************************************************************)
(* Selective-capture pipeline of the always-on backend: registration,      *)
(* voice enrollment and the transcribe endpoint (speaker gate, Whisper,    *)
(* session grouping, geocoding, text embedding, persistence), modelled as  *)
(* a state machine over the users and transcripts tables.                  *)
(*                                                                         *)
(* Conventions                                                             *)
(*   - time is counted in minutes; a datetime is an integer                *)
(*   - a Python str is a sequence of one-character strings                 *)
(*   - a timestamp form field is a sequence of lexical tokens              *)
(*   - a similarity is a percentage, rounded down (0.65 is 65)             *)
(*   - uuid4() is the next value of a counter                              *)
(*                                                                         *)
(* Requests that overlap in time are modelled by tasks, one per request or *)
(* call in flight, each at a position between two of its await points (or, *)
(* for the synchronous accessors, between two of its statements); handles  *)
(* holds the module-level service singletons and the loaded speaker model, *)
(* cache the geocoding service's _cache, and user_rows the users table as  *)
(* the sequence of its rows wherever two rows of one identity have to be   *)
(* expressible.                                                            *)
(***************************************************************************)
EXTENDS Integers, Sequences, FiniteSets, TLC

VARIABLES users, transcripts, uuid_counter, last,
          tasks, handles, cache, user_rows

\* The state that only overlapping requests and calls touch.
in_flight == <<tasks, handles, cache, user_rows>>

vars == <<users, transcripts, uuid_counter, last, tasks, handles, cache, user_rows>>

\* Largest number of rows of the transcripts table that is explored, under
\* Spec and under SpecSession.
MaxRows == 2
MaxTimedRows == 3

\* Largest number of rows of the transcripts table under SpecList.
MaxListRows == 3

\* Largest number of rows of the transcripts table under SpecChat.
MaxSearchRows == 2

\* Largest number of rows of the transcripts table under SpecLifecycle.
MaxLifecycleRows == 1

\* Largest number of rows of the transcripts table under SpecAppend.
MaxAppendRows == 2

\* Largest body of an unknown chunk in the byte strings of SpecAudio.
MaxListBytes == 3

\* Largest number of rows of the users table under SpecRegister.
MaxUserRows == 3

\* Largest number of requests, or of calls of one accessor, in flight
\* together.
MaxTasks == 2

\* Largest number of retrieved segments handed to build_chat_context under
\* SpecContext.
MaxRetrieved == 3

\* Largest absolute value of a component of the vectors that are compared
\* under SpecSimilarity.
MaxComponent == 2

\* Python's None, for a field that otherwise holds a name.
None == "None"

\* Python's None, for a field that otherwise holds a vector.
NoVector == <<>>

\* A null UUID column or response field; uuid4() values are positive.
NoUuid == 0

\* The outcome of a call that raised, and of one that returned value v.
Failed == [ok |-> FALSE]
Returned(v) == [ok |-> TRUE, value |-> v]

----------------------------------------------------------------------------
(* Python str helpers                                                      *)

IsSpace(c) == c = " "

RECURSIVE lstrip(_)
lstrip(s) == IF s # <<>> /\ IsSpace(Head(s)) THEN lstrip(Tail(s)) ELSE s

RECURSIVE rstrip(_)
rstrip(s) ==
    IF s # <<>> /\ IsSpace(s[Len(s)]) THEN rstrip(SubSeq(s, 1, Len(s) - 1)) ELSE s

\* str.strip()
strip(s) == rstrip(lstrip(s))

Uppercase == <<"A", "B", "C", "D", "E", "F", "G", "H", "I", "J", "K", "L", "M", "N", "O", "P", "Q", "R", "S", "T", "U", "V", "W", "X", "Y", "Z">>
Lowercase == <<"a", "b", "c", "d", "e", "f", "g", "h", "i", "j", "k", "l", "m", "n", "o", "p", "q", "r", "s", "t", "u", "v", "w", "x", "y", "z">>

\* str.lower()
lower(s) ==
    [i \in 1..Len(s) |->
        IF \E k \in 1..26 : Uppercase[k] = s[i]
        THEN Lowercase[CHOOSE k \in 1..26 : Uppercase[k] = s[i]]
        ELSE s[i]]

\* pattern in text
Contains(s, pat) ==
    \E i \in 1..(Len(s) - Len(pat) + 1) : SubSeq(s, i, i + Len(pat) - 1) = pat

\* len(text.split())
RECURSIVE CountWords(_, _)
CountWords(s, inWord) ==
    IF s = <<>> THEN 0
    ELSE IF IsSpace(Head(s)) THEN CountWords(Tail(s), FALSE)
    ELSE (IF inWord THEN 0 ELSE 1) + CountWords(Tail(s), TRUE)

\* email.split("@")[0]
RECURSIVE BeforeAt(_)
BeforeAt(s) ==
    IF s = <<>> \/ Head(s) = "@" THEN <<>> ELSE <<Head(s)>> \o BeforeAt(Tail(s))

----------------------------------------------------------------------------
(* Timestamp form fields                                                   *)

Quote == [k |-> "quote"]
Zulu == [k |-> "Z"]
DateTime(w) == [k |-> "datetime", v |-> w]
Offset(m) == [k |-> "offset", v |-> m]

RECURSIVE StripLeadingQuotes(_)
StripLeadingQuotes(s) ==
    IF s # <<>> /\ Head(s).k = "quote" THEN StripLeadingQuotes(Tail(s)) ELSE s

RECURSIVE StripTrailingQuotes(_)
StripTrailingQuotes(s) ==
    IF s # <<>> /\ s[Len(s)].k = "quote"
    THEN StripTrailingQuotes(SubSeq(s, 1, Len(s) - 1))
    ELSE s

\* timestamp.strip('"')
StripQuotes(s) == StripTrailingQuotes(StripLeadingQuotes(s))

\* .replace("Z", "+00:00")
ReplaceZ(s) == [i \in 1..Len(s) |-> IF s[i].k = "Z" THEN Offset(0) ELSE s[i]]

\* datetime.fromisoformat: a naive or an aware datetime, or ValueError
fromisoformat(s) ==
    IF Len(s) = 1 /\ s[1].k = "datetime"
    THEN [ok |-> TRUE, wall |-> s[1].v, tzinfo |-> None, utcoffset |-> 0]
    ELSE IF Len(s) = 2 /\ s[1].k = "datetime" /\ s[2].k = "offset"
    THEN [ok |-> TRUE, wall |-> s[1].v, tzinfo |-> "offset", utcoffset |-> s[2].v]
    ELSE [ok |-> FALSE]

\* datetime.replace(tzinfo=None): the wall clock is kept, the offset dropped.
replace_tzinfo_none(parsed) == parsed.wall

\* The parsing block of transcribe_audio for one field: the naive datetime
\* that is kept, or Failed for the ValueError.
parse_timestamp(field) ==
    LET parsed == fromisoformat(ReplaceZ(StripQuotes(field)))
    IN  IF ~parsed.ok THEN Failed
        ELSE IF parsed.tzinfo # None THEN Returned(replace_tzinfo_none(parsed))
        ELSE Returned(parsed.wall)

----------------------------------------------------------------------------
(* Audio: services/audio_validation.py                                     *)
(* An upload is its length, its RIFF/WAVE markers, its chunk list, and the *)
(* result the speaker model's extract_embedding gives for these bytes.     *)

FmtChunk(format, ch, rate, bits) ==
    [id |-> "fmt ", audio_format |-> format, channels |-> ch,
     sample_rate |-> rate, bits_per_sample |-> bits]
DataChunk(size) == [id |-> "data", chunk_size |-> size]
ListChunk == [id |-> "LIST"]
TruncatedChunk == [id |-> "trunc"]

ScanStart ==
    [fmt_found |-> FALSE, data_found |-> FALSE, error |-> None,
     sample_rate |-> 0, channels |-> 0, bits_per_sample |-> 0, data_size |-> 0]

\* The while loop over the chunks of validate_wav_audio.
RECURSIVE ScanChunks(_, _)
ScanChunks(chunks, st) ==
    IF chunks = <<>> THEN st
    ELSE LET c == Head(chunks) IN
         IF c.id = "trunc" THEN [st EXCEPT !.error = "PARSE_ERROR"]
         ELSE IF c.id = "fmt " THEN
              IF c.audio_format \notin {1, 3}
              THEN [st EXCEPT !.fmt_found = TRUE, !.error = "UNSUPPORTED_FORMAT"]
              ELSE ScanChunks(Tail(chunks),
                      [st EXCEPT !.fmt_found = TRUE,
                                 !.channels = c.channels,
                                 !.sample_rate = c.sample_rate,
                                 !.bits_per_sample = c.bits_per_sample])
         ELSE IF c.id = "data"
              THEN [st EXCEPT !.data_found = TRUE, !.data_size = c.chunk_size]
         ELSE ScanChunks(Tail(chunks), st)

AudioError(code) == [ok |-> FALSE, error_code |-> code]

validate_wav_audio(audio, min_duration_seconds, max_duration_seconds) ==
    IF audio.nbytes < 44 THEN AudioError("INVALID_FORMAT")
    ELSE IF ~audio.riff THEN AudioError("INVALID_FORMAT")
    ELSE IF ~audio.wave THEN AudioError("INVALID_FORMAT")
    ELSE LET st == ScanChunks(audio.chunks, ScanStart) IN
         IF st.error # None THEN AudioError(st.error)
         ELSE IF ~st.fmt_found THEN AudioError("INVALID_FORMAT")
         ELSE IF ~st.data_found THEN AudioError("INVALID_FORMAT")
         ELSE LET bytes_per_sample == st.bits_per_sample \div 8 IN
              \* ZeroDivisionError is caught and re-raised as PARSE_ERROR
              IF st.channels * bytes_per_sample = 0 THEN AudioError("PARSE_ERROR")
              ELSE IF st.sample_rate = 0 THEN AudioError("PARSE_ERROR")
              ELSE LET num_samples == st.data_size \div (st.channels * bytes_per_sample) IN
                   \* duration_seconds = num_samples / sample_rate
                   IF num_samples < min_duration_seconds * st.sample_rate
                   THEN AudioError("AUDIO_TOO_SHORT")
                   ELSE IF num_samples > max_duration_seconds * st.sample_rate
                   THEN AudioError("AUDIO_TOO_LONG")
                   ELSE [ok |-> TRUE, sample_rate |-> st.sample_rate,
                         channels |-> st.channels, num_samples |-> num_samples]

validate_enrollment_audio(audio) == validate_wav_audio(audio, 15, 30)

validate_transcription_audio(audio) == validate_wav_audio(audio, 1, 60)

----------------------------------------------------------------------------
(* Speaker gate: services/speaker_verification.py                          *)

Dot(a, b) == a[1] * b[1] + a[2] * b[2]

\* The greatest p in lo..hi with p * p * den <= 10000 * num, by bisection.
RECURSIVE FloorPercent(_, _, _, _)
FloorPercent(lo, hi, num, den) ==
    IF lo = hi THEN lo
    ELSE LET mid == (lo + hi + 1) \div 2 IN
         IF mid * mid * den <= 10000 * num
         THEN FloorPercent(mid, hi, num, den)
         ELSE FloorPercent(lo, mid - 1, num, den)

compare_embeddings_unclamped(embedding1, embedding2) ==
    LET dot_product == Dot(embedding1, embedding2)
        sq1 == Dot(embedding1, embedding1)
        sq2 == Dot(embedding2, embedding2)
        magnitude == FloorPercent(0, 100, dot_product * dot_product, sq1 * sq2)
    IN  IF sq1 = 0 \/ sq2 = 0 THEN 0
        ELSE IF dot_product < 0 THEN 0 - magnitude ELSE magnitude

\* Cosine similarity clamped to [0, 1], as a percentage rounded down.
compare_embeddings(embedding1, embedding2) ==
    LET dot_product == Dot(embedding1, embedding2)
        sq1 == Dot(embedding1, embedding1)
        sq2 == Dot(embedding2, embedding2)
    IN  IF sq1 = 0 \/ sq2 = 0 THEN 0
        ELSE IF dot_product <= 0 THEN 0
        ELSE FloorPercent(0, 100, dot_product * dot_product, sq1 * sq2)

\* speaker_verification_threshold, as a percentage
speaker_verification_threshold == 65

is_match_always(similarity, threshold) == TRUE

is_match(similarity, threshold) == similarity >= threshold

\* (is_match, similarity), or Failed when extract_embedding raises.
verify_speaker(audio, enrolled_embedding, threshold) ==
    IF ~audio.voice.ok THEN Failed
    \* np.dot raises on vectors of different lengths
    ELSE IF Len(audio.voice.value) # Len(enrolled_embedding) THEN Failed
    ELSE LET similarity == compare_embeddings(audio.voice.value, enrolled_embedding)
         IN  Returned([is_match |-> is_match(similarity, threshold),
                       similarity |-> similarity])

----------------------------------------------------------------------------
(* Whisper: services/transcription.py                                      *)

hallucination_patterns == {<<"w", "w", "w", ".">>}

_filter_hallucinations(text) ==
    IF text = <<>> THEN <<>>
    ELSE IF \E pattern \in hallucination_patterns : Contains(lower(text), pattern)
    THEN <<>>
    ELSE IF CountWords(text, FALSE) <= 2 /\ Len(text) < 15 THEN <<>>
    ELSE text

\* TranscriptionService.transcribe for a given answer of the Whisper API.
transcribe(response) ==
    IF ~response.ok THEN Failed
    ELSE Returned(_filter_hallucinations(strip(response.value)))

----------------------------------------------------------------------------
(* Text embedding: services/embedding.py                                   *)

\* "[speaker] text (time context)"; the time context is one character here.
prepare_transcript_for_embedding(speaker_name, transcript_text) ==
    <<"[">> \o speaker_name \o <<"]", " ">> \o transcript_text \o <<" ", "(", "t", ")">>

embed_text_swallowing_errors(text, answer) ==
    IF strip(text) = <<>> \/ ~answer.ok THEN Returned(<<0, 0>>) ELSE answer

\* EmbeddingService.embed_text for a given answer of the embeddings API.
embed_text(text, answer) ==
    IF strip(text) = <<>> THEN Failed ELSE answer

----------------------------------------------------------------------------
(* Tables                                                                  *)
(* users: one row per firebase_uid (unique), which also serves as user.id. *)
(* transcripts: the rows in insertion order; a row's id is its position.   *)

NoUser == [registered |-> FALSE]

UserRow(fb, name) ==
    [registered |-> TRUE, id |-> fb.uid, email |-> fb.email, name |-> name,
     voiceprint_embedding |-> NoVector]

Transcript(id, user, session_id, text, ts_start, ts_end, lat, lon, location_name) ==
    [id |-> id, user_id |-> user.id, session_id |-> session_id,
     speaker_type |-> "primary", speaker_name |-> user.name,
     transcript_text |-> text,
     timestamp_start |-> ts_start, timestamp_end |-> ts_end,
     latitude |-> lat, longitude |-> lon, location_name |-> location_name,
     embedding |-> NoVector]

Rows == {transcripts[i] : i \in 1..Len(transcripts)}

RowsOf(rows, user_id) == {r \in rows : r.user_id = user_id}

----------------------------------------------------------------------------
(* Session grouping: routers/transcription.py                              *)

SESSION_GAP_MINUTES == 5

last_transcript_candidates_unordered(rows, user_id) == RowsOf(rows, user_id)

\* ORDER BY timestamp_end DESC LIMIT 1: any row of the user with the
\* greatest timestamp_end (the database picks among equal ones).
last_transcript_candidates(rows, user_id) ==
    {r \in RowsOf(rows, user_id) :
        \A o \in RowsOf(rows, user_id) : o.timestamp_end <= r.timestamp_end}

exceeds_gap_ge(gap) == gap >= SESSION_GAP_MINUTES

exceeds_gap(gap) == gap > SESSION_GAP_MINUTES

\* The session ids get_or_create_session_id can return; uuid is the value
\* uuid4() yields when it is called.
get_or_create_session_id(rows, user_id, timestamp_start, uuid) ==
    IF RowsOf(rows, user_id) = {} THEN {uuid}
    ELSE {IF exceeds_gap(timestamp_start - last_transcript.timestamp_end)
          THEN uuid
          ELSE last_transcript.session_id :
             last_transcript \in last_transcript_candidates(rows, user_id)}

----------------------------------------------------------------------------
(* Handlers.  `last` is what the latest request observed and returned:     *)
(* status and body of the HTTP response, the collaborators it called in    *)
(* order, the similarity the gate logged and the text Whisper returned.    *)

NoSimilarity == -1

Response(op, uid, status, body, calls, request, similarity, text) ==
    [op |-> op, uid |-> uid, status |-> status, body |-> body, calls |-> calls,
     request |-> request, similarity |-> similarity, transcript_text |-> text]

HTTPException(op, uid, status, detail, calls, request, similarity) ==
    Response(op, uid, status, [detail |-> detail], calls, request, similarity, <<>>)

Reply(response) ==
    /\ last' = response
    /\ UNCHANGED <<users, transcripts, uuid_counter, in_flight>>

\* The callers' identity tokens: uid, email and display name ("" when the
\* token carries none).
FirebaseUsers ==
    {[uid |-> "u1", email |-> <<"a", "@", "x">>, name |-> <<>>],
     [uid |-> "u2", email |-> <<"b", "@", "x">>, name |-> <<"B">>],
     [uid |-> "u3", email |-> <<>>, name |-> <<>>]}

FirebaseUids == {fb.uid : fb \in FirebaseUsers}

TokenOf(uid) == CHOOSE fb \in FirebaseUsers : fb.uid = uid

\* The requests or calls that can be in flight together.
Tasks == 1..MaxTasks

Idle == [pc |-> "idle"]

\* The lazily created handles of the process: the module-level singleton
\* of each get_*_service accessor and the speaker service's _model.
Accessors ==
    {"get_speaker_verification_service", "get_transcription_service",
     "get_embedding_service", "get_geocoding_service", "get_chat_service",
     "model"}

\* `_chat_service = None` and its likes: no handle yet.  An instance is
\* named by the task whose call created it.
NoHandle == 0

\* A new request or call takes the first task that is free.
FirstIdle(task) ==
    /\ tasks[task] = Idle
    /\ \A other \in Tasks : other < task => tasks[other] # Idle

\* A process that has served nothing yet: no handle, an empty cache.
NothingInFlight ==
    /\ tasks = [task \in Tasks |-> Idle]
    /\ handles = [accessor \in Accessors |-> NoHandle]
    /\ cache = <<>>
    /\ user_rows = <<>>

Init ==
    /\ users = [uid \in FirebaseUids |-> NoUser]
    /\ transcripts = <<>>
    /\ uuid_counter = 0
    /\ NothingInFlight
    /\ last = Response("none", None, 0, [detail |-> None], <<>>, None, NoSimilarity, <<>>)

\* POST /auth/register
register(fb) ==
    LET existing_user == users[fb.uid] IN
    IF existing_user.registered
    THEN Reply(Response("register", fb.uid, 200,
                 [user_id |-> existing_user.id, email |-> existing_user.email,
                  name |-> existing_user.name,
                  is_enrolled |-> existing_user.voiceprint_embedding # NoVector,
                  created |-> FALSE],
                 <<>>, fb, NoSimilarity, <<>>))
    ELSE IF fb.email = <<>>
    THEN Reply(HTTPException("register", fb.uid, 400, "Email is required",
                             <<>>, fb, NoSimilarity))
    ELSE LET new_user == UserRow(fb, IF fb.name # <<>> THEN fb.name
                                     ELSE BeforeAt(fb.email)) IN
         /\ users' = [users EXCEPT ![fb.uid] = new_user]
         /\ last' = Response("register", fb.uid, 200,
                       [user_id |-> new_user.id, email |-> new_user.email,
                        name |-> new_user.name, is_enrolled |-> FALSE,
                        created |-> TRUE],
                       <<"commit">>, fb, NoSimilarity, <<>>)
         /\ UNCHANGED <<transcripts, uuid_counter, in_flight>>

\* len(embedding) the speaker model is expected to produce
voiceprint_dimensions == 2

enrolled_user_keeping_first(user, embedding) ==
    IF user.voiceprint_embedding # NoVector THEN user
    ELSE [user EXCEPT !.voiceprint_embedding = embedding]

\* user.voiceprint_embedding = embedding
enrolled_user(user, embedding) ==
    [user EXCEPT !.voiceprint_embedding = embedding]

\* POST /enroll
enroll_voice(fb, audio) ==
    LET user == users[fb.uid]
        Raise(status, detail, calls) ==
            Reply(HTTPException("enroll", fb.uid, status, detail, calls, audio,
                                NoSimilarity))
    IN
    IF ~audio.readable THEN Raise(400, "Failed to read audio file", <<>>)
    ELSE IF ~validate_enrollment_audio(audio).ok
    THEN Raise(400, validate_enrollment_audio(audio).error_code, <<>>)
    ELSE IF ~user.registered THEN Raise(404, "User not found", <<>>)
    ELSE IF ~audio.voice.ok \/ Len(audio.voice.value) # voiceprint_dimensions
    THEN Raise(500, "Failed to process audio", <<"extract_embedding">>)
    ELSE /\ users' = [users EXCEPT ![fb.uid] = enrolled_user(user, audio.voice.value)]
         /\ last' = Response("enroll", fb.uid, 200, [success |-> TRUE],
                             <<"extract_embedding", "commit">>, audio,
                             NoSimilarity, <<>>)
         /\ UNCHANGED <<transcripts, uuid_counter, in_flight>>

\* if not transcript_text.strip()
is_empty_transcript_never(transcript_text) == FALSE

is_empty_transcript(transcript_text) == strip(transcript_text) = <<>>

voiceprint_missing_never(user) == FALSE

\* if user.voiceprint_embedding is None
voiceprint_missing(user) == user.voiceprint_embedding = NoVector

TranscribeResponse_without_session(processed, segments, filtered_segments, session_id) ==
    [processed |-> processed, segments |-> segments,
     filtered_segments |-> filtered_segments, session_id |-> NoUuid]

TranscribeResponse(processed, segments, filtered_segments, session_id) ==
    [processed |-> processed, segments |-> segments,
     filtered_segments |-> filtered_segments, session_id |-> session_id]

TranscriptSegment(transcript) ==
    [transcript_id |-> transcript.id, speaker_type |-> "primary",
     speaker_name |-> transcript.speaker_name, text |-> transcript.transcript_text,
     timestamp_start |-> transcript.timestamp_start,
     timestamp_end |-> transcript.timestamp_end]

\* POST /transcribe.  request: the caller's token and form fields; the three
\* sets: the answers the Whisper API, the geocoder and the embeddings API
\* may give to this request.
transcribe_audio(request, WhisperAnswers, GeocodeAnswers, EmbedAnswers) ==
    LET fb == request.fb
        audio == request.audio
        parsed_timestamp_start == parse_timestamp(request.timestamp_start)
        parsed_timestamp_end == parse_timestamp(request.timestamp_end)
        user == users[fb.uid]
        Raise(status, detail, calls, similarity) ==
            Reply(HTTPException("transcribe", fb.uid, status, detail, calls,
                                request, similarity))
        Return(body, calls, similarity, text) ==
            Response("transcribe", fb.uid, 200, body, calls, request, similarity, text)
    IN
    IF ~parsed_timestamp_start.ok \/ ~parsed_timestamp_end.ok
    THEN Raise(400, "Invalid timestamp format", <<>>, NoSimilarity)
    ELSE IF ~audio.readable
    THEN Raise(400, "Failed to read audio file", <<>>, NoSimilarity)
    ELSE IF ~user.registered
    THEN Raise(404, "User not found", <<>>, NoSimilarity)
    ELSE IF voiceprint_missing(user)
    THEN Raise(400, "User has not enrolled voiceprint", <<>>, NoSimilarity)
    ELSE
    LET verified == verify_speaker(audio, user.voiceprint_embedding,
                                   speaker_verification_threshold) IN
    IF ~verified.ok
    THEN Raise(500, "Failed to process audio", <<"verify_speaker">>, NoSimilarity)
    ELSE IF ~verified.value.is_match
    THEN Reply(Return(TranscribeResponse(TRUE, <<>>, 1, NoUuid),
                      <<"verify_speaker">>, verified.value.similarity, <<>>))
    ELSE
    \E answer \in WhisperAnswers :
    LET transcribed == transcribe(answer)
        similarity == verified.value.similarity
    IN
    IF ~transcribed.ok
    THEN Raise(500, "Failed to transcribe audio", <<"verify_speaker", "transcribe">>,
               similarity)
    ELSE IF is_empty_transcript(transcribed.value)
    THEN Reply(Return(TranscribeResponse(TRUE, <<>>, 0, NoUuid),
                      <<"verify_speaker", "transcribe">>, similarity,
                      transcribed.value))
    ELSE
    \E session_id \in get_or_create_session_id(Rows, user.id,
                             parsed_timestamp_start.value, uuid_counter + 1) :
       \E geocoded \in (IF request.latitude # None /\ request.longitude # None
                        THEN GeocodeAnswers ELSE {Returned(None)}) :
       \E embedded \in EmbedAnswers :
       LET has_coordinates == request.latitude # None /\ request.longitude # None
           location_name == IF geocoded.ok THEN geocoded.value ELSE None
           transcript == Transcript(Len(transcripts) + 1, user, session_id,
                             transcribed.value, parsed_timestamp_start.value,
                             parsed_timestamp_end.value, request.latitude,
                             request.longitude, location_name)
           embedding == embed_text(prepare_transcript_for_embedding(
                                       transcript.speaker_name,
                                       transcript.transcript_text), embedded)
           stored == [transcript EXCEPT !.embedding =
                         IF embedding.ok THEN embedding.value ELSE NoVector]
       IN
       /\ transcripts' = Append(transcripts, stored)
       /\ uuid_counter' = IF session_id = uuid_counter + 1
                          THEN uuid_counter + 1 ELSE uuid_counter
       /\ last' = Return(TranscribeResponse(TRUE, <<TranscriptSegment(stored)>>,
                                            0, session_id),
                         <<"verify_speaker", "transcribe", "get_or_create_session_id">>
                         \o (IF has_coordinates THEN <<"reverse_geocode">> ELSE <<>>)
                         \o <<"embed_text", "commit">>,
                         similarity, transcribed.value)
       /\ UNCHANGED <<users, in_flight>>

----------------------------------------------------------------------------
(* Calendar and time zones: datetime and zoneinfo as services/chat.py uses *)
(* them.  A naive datetime is its count of minutes since 2023-01-01T00:00, *)
(* an aware one is the wall clock of its zone, counted the same way.       *)

IsLeap(year) == year % 4 = 0 /\ (year % 100 # 0 \/ year % 400 = 0)

DaysInMonth(year, month) ==
    IF month = 2 THEN (IF IsLeap(year) THEN 29 ELSE 28)
    ELSE IF month \in {4, 6, 9, 11} THEN 30 ELSE 31

RECURSIVE DaysBeforeMonth(_, _)
DaysBeforeMonth(year, month) ==
    IF month = 1 THEN 0
    ELSE DaysBeforeMonth(year, month - 1) + DaysInMonth(year, month - 1)

RECURSIVE DaysBeforeYear(_)
DaysBeforeYear(year) ==
    IF year <= 2023 THEN 0
    ELSE DaysBeforeYear(year - 1) + (IF IsLeap(year - 1) THEN 366 ELSE 365)

\* datetime(year, month, day, hour, minute)
datetime(year, month, day, hour, minute) ==
    (DaysBeforeYear(year) + DaysBeforeMonth(year, month) + day - 1) * 1440
        + hour * 60 + minute

\* The year, month and day fields of a datetime.
date_of(dt) ==
    LET days == dt \div 1440
        y == CHOOSE year \in 2023..2026 :
                 DaysBeforeYear(year) <= days /\ days < DaysBeforeYear(year + 1)
        m == CHOOSE month \in 1..12 :
                 /\ DaysBeforeYear(y) + DaysBeforeMonth(y, month) <= days
                 /\ days < DaysBeforeYear(y) + DaysBeforeMonth(y, month)
                             + DaysInMonth(y, month)
    IN  [year |-> y, month |-> m,
         day |-> days - DaysBeforeYear(y) - DaysBeforeMonth(y, m) + 1]

\* datetime.weekday(): Monday is 0; 2023-01-01 was a Sunday.
weekday(dt) == ((dt \div 1440) + 6) % 7

\* .replace(hour=0, minute=0, second=0, microsecond=0)
replace_midnight(dt) == dt - (dt % 1440)

\* .replace(day=1) of a datetime at midnight
replace_day_1(dt) == datetime(date_of(dt).year, date_of(dt).month, 1, 0, 0)

\* ZoneInfo(name): the zones of the tz database that are explored; any
\* other name raises.
ZoneInfo(name) ==
    IF name \in {"UTC", "America/Denver", "Asia/Kolkata"} THEN Returned(name)
    ELSE Failed

\* Daylight saving time in America/Denver, as UTC instants [begin, end).
DenverDst ==
    {<<datetime(2023, 3, 12, 9, 0), datetime(2023, 11, 5, 8, 0)>>,
     <<datetime(2024, 3, 10, 9, 0), datetime(2024, 11, 3, 8, 0)>>,
     <<datetime(2025, 3, 9, 9, 0), datetime(2025, 11, 2, 8, 0)>>}

\* tz.utcoffset at a UTC instant, in minutes.
utcoffset_at_utc(tz, utc) ==
    IF tz = "America/Denver"
    THEN (IF \E p \in DenverDst : p[1] <= utc /\ utc < p[2] THEN -360 ELSE -420)
    ELSE IF tz = "Asia/Kolkata" THEN 330
    ELSE 0

\* tz.utcoffset of a wall clock time (fold=0): a skipped time has the
\* offset before the transition, a repeated one its first occurrence.
utcoffset_at_wall(tz, wall) ==
    IF tz = "America/Denver"
    THEN (IF \E p \in DenverDst : p[1] - 360 <= wall /\ wall < p[2] - 360
          THEN -360 ELSE -420)
    ELSE IF tz = "Asia/Kolkata" THEN 330
    ELSE 0

\* now_utc.astimezone(tz): the wall clock of tz at a UTC instant.
astimezone(utc, tz) == utc + utcoffset_at_utc(tz, utc)

astimezone_utc_keeping_wall_clock(wall, tz) == wall

\* local.astimezone(ZoneInfo("UTC")).replace(tzinfo=None)
astimezone_utc(wall, tz) == wall - utcoffset_at_wall(tz, wall)

----------------------------------------------------------------------------
(* Time filter: ChatService.parse_time_filter                              *)

TodayPattern == <<"t", "o", "d", "a", "y">>
FromTodayPattern == <<"f", "r", "o", "m", " ", "t", "o", "d", "a", "y">>
YesterdayPattern == <<"y", "e", "s", "t", "e", "r", "d", "a", "y">>
ThisWeekPattern == <<"t", "h", "i", "s", " ", "w", "e", "e", "k">>
LastWeekPattern == <<"l", "a", "s", "t", " ", "w", "e", "e", "k">>
ThisMonthPattern == <<"t", "h", "i", "s", " ", "m", "o", "n", "t", "h">>
LastMonthPattern == <<"l", "a", "s", "t", " ", "m", "o", "n", "t", "h">>

matched_pattern_last_first(query_lower) ==
    IF Contains(query_lower, LastMonthPattern) THEN "last month"
    ELSE IF Contains(query_lower, ThisMonthPattern) THEN "this month"
    ELSE IF Contains(query_lower, LastWeekPattern) THEN "last week"
    ELSE IF Contains(query_lower, ThisWeekPattern) THEN "this week"
    ELSE IF Contains(query_lower, YesterdayPattern) THEN "yesterday"
    ELSE IF \E pattern \in {TodayPattern, FromTodayPattern} :
               Contains(query_lower, pattern) THEN "today"
    ELSE None

\* The branch of the if chain that returns.
matched_pattern(query_lower) ==
    IF \E pattern \in {TodayPattern, FromTodayPattern} :
          Contains(query_lower, pattern) THEN "today"
    ELSE IF Contains(query_lower, YesterdayPattern) THEN "yesterday"
    ELSE IF Contains(query_lower, ThisWeekPattern) THEN "this week"
    ELSE IF Contains(query_lower, LastWeekPattern) THEN "last week"
    ELSE IF Contains(query_lower, ThisMonthPattern) THEN "this month"
    ELSE IF Contains(query_lower, LastMonthPattern) THEN "last month"
    ELSE None

last_month_start_local_same_year(month_start_local) ==
    LET d == date_of(month_start_local) IN
    IF d.month = 1 THEN datetime(d.year, 12, 1, 0, 0)
    ELSE datetime(d.year, d.month - 1, 1, 0, 0)

\* month_start_local.replace(year=year - 1, month=12) in January,
\* month_start_local.replace(month=month - 1) otherwise.
last_month_start_local(month_start_local) ==
    LET d == date_of(month_start_local) IN
    IF d.month = 1 THEN datetime(d.year - 1, 12, 1, 0, 0)
    ELSE datetime(d.year, d.month - 1, 1, 0, 0)

\* Python's None for an absent time bound; datetimes are not negative here.
NoTime == -1

TimeFilter(window, start_utc, end_utc) ==
    [window |-> window, start_utc |-> start_utc, end_utc |-> end_utc]

\* parse_time_filter at the instant now_utc (datetime.now): the pair it
\* returns and the window its log line names.
parse_time_filter(query, client_timezone, now_utc) ==
    LET query_lower == lower(query)
        tz == IF ZoneInfo(client_timezone).ok THEN ZoneInfo(client_timezone).value
              ELSE ZoneInfo("UTC").value
        now_local == astimezone(now_utc, tz)
        today_start_local == replace_midnight(now_local)
        window == matched_pattern(query_lower)
        utc(local) == astimezone_utc(local, tz)
    IN  IF window = "today"
        THEN TimeFilter(window, utc(today_start_local), now_utc)
        ELSE IF window = "yesterday"
        THEN LET yesterday_start_local == today_start_local - 1440
             IN  TimeFilter(window, utc(yesterday_start_local), utc(today_start_local))
        ELSE IF window = "this week"
        THEN LET days_since_monday == weekday(now_local)
                 week_start_local == today_start_local - days_since_monday * 1440
             IN  TimeFilter(window, utc(week_start_local), now_utc)
        ELSE IF window = "last week"
        THEN LET days_since_monday == weekday(now_local)
                 this_week_start_local == today_start_local - days_since_monday * 1440
                 last_week_start_local == this_week_start_local - 7 * 1440
             IN  TimeFilter(window, utc(last_week_start_local),
                            utc(this_week_start_local))
        ELSE IF window = "this month"
        THEN LET month_start_local == replace_day_1(today_start_local)
             IN  TimeFilter(window, utc(month_start_local), now_utc)
        ELSE IF window = "last month"
        THEN LET month_start_local == replace_day_1(today_start_local)
             IN  TimeFilter(window, utc(last_month_start_local(month_start_local)),
                            utc(month_start_local))
        ELSE TimeFilter(None, NoTime, NoTime)

----------------------------------------------------------------------------
(* Read paths: GET /transcripts and ChatService.vector_search              *)

Range(seq) == {seq[i] : i \in 1..Len(seq)}

\* The orders in which the database may return the rows S under ORDER BY
\* key: every arrangement that is sorted (rows with equal keys in any order).
SortedSeqs(S, key(_)) ==
    {seq \in [1..Cardinality(S) -> S] :
        /\ \A i, j \in 1..Cardinality(S) : i # j => seq[i] # seq[j]
        /\ \A i, j \in 1..Cardinality(S) : i < j => key(seq[i]) <= key(seq[j])}

Page_without_offset(seq, offset, limit) ==
    SubSeq(seq, 1, IF limit < Len(seq) THEN limit ELSE Len(seq))

\* .offset(offset).limit(limit)
Page(seq, offset, limit) ==
    SubSeq(seq, offset + 1, IF offset + limit < Len(seq) THEN offset + limit ELSE Len(seq))

TranscriptResponse(t) ==
    [id |-> t.id, session_id |-> t.session_id, speaker_type |-> t.speaker_type,
     speaker_name |-> t.speaker_name, text |-> t.transcript_text,
     timestamp_start |-> t.timestamp_start, timestamp_end |-> t.timestamp_end,
     latitude |-> t.latitude, longitude |-> t.longitude,
     location_name |-> t.location_name]

\* The responses GET /transcripts can give; session_id is NoUuid when the
\* query parameter is absent.
get_transcripts(fb, limit, offset, session_id) ==
    LET user == users[fb.uid]
        NewestFirst(t) == 0 - t.timestamp_start
        query == {t \in RowsOf(Rows, fb.uid) :
                     session_id # NoUuid => t.session_id = session_id}
        total == Cardinality(RowsOf(Rows, fb.uid))
    IN  IF ~user.registered THEN {[status |-> 404]}
        ELSE {[status |-> 200,
               transcripts |-> [i \in 1..Len(Page(seq, offset, limit)) |->
                                   TranscriptResponse(Page(seq, offset, limit)[i])],
               total |-> total] : seq \in SortedSeqs(query, NewestFirst)}

\* pgvector's <=>: 1 - cosine, as a percentage; a NULL sorts last.
cosine_distance(a, b) ==
    LET dot_product == Dot(a, b)
        magnitude == FloorPercent(0, 100, dot_product * dot_product,
                                  Dot(a, a) * Dot(b, b))
    IN  IF a = NoVector \/ b = NoVector THEN 300
        ELSE IF Dot(a, a) = 0 \/ Dot(b, b) = 0 THEN 300
        ELSE IF dot_product >= 0 THEN 100 - magnitude ELSE 100 + magnitude

time_conditions_ignored(t, time_start, time_end) == TRUE

\* The time filters vector_search adds when they are provided
time_conditions(t, time_start, time_end) ==
    /\ time_start # NoTime => t.timestamp_start >= time_start
    /\ time_end # NoTime => t.timestamp_start <= time_end

search_conditions_without_embedding(t, user_id, time_start, time_end) ==
    /\ t.user_id = user_id
    /\ time_conditions(t, time_start, time_end)

\* The WHERE clause of vector_search
search_conditions(t, user_id, time_start, time_end) ==
    /\ t.user_id = user_id
    /\ t.embedding # NoVector
    /\ time_conditions(t, time_start, time_end)

\* The lists ChatService.vector_search can return.
vector_search(rows, query_embedding, user_id, time_start, time_end, limit) ==
    LET matching == {t \in rows : search_conditions(t, user_id, time_start, time_end)}
        distance == [t \in matching |->
                        cosine_distance(t.embedding, query_embedding)]
        Distance(t) == distance[t]
    IN  {Page(seq, 0, limit) : seq \in SortedSeqs(matching, Distance)}

----------------------------------------------------------------------------
(* Context assembly and the event stream: ChatService.build_chat_context,  *)
(* get_system_prompt, get_chat_response_stream and generate_sse_stream     *)

MAX_CONTEXT_TOKENS == 6000
AVG_CHARS_PER_TOKEN == 4

MonthNames ==
    <<<<"J", "a", "n", "u", "a", "r", "y">>,
      <<"F", "e", "b", "r", "u", "a", "r", "y">>,
      <<"M", "a", "r", "c", "h">>,
      <<"A", "p", "r", "i", "l">>,
      <<"M", "a", "y">>,
      <<"J", "u", "n", "e">>,
      <<"J", "u", "l", "y">>,
      <<"A", "u", "g", "u", "s", "t">>,
      <<"S", "e", "p", "t", "e", "m", "b", "e", "r">>,
      <<"O", "c", "t", "o", "b", "e", "r">>,
      <<"N", "o", "v", "e", "m", "b", "e", "r">>,
      <<"D", "e", "c", "e", "m", "b", "e", "r">>>>

Digits == <<"0", "1", "2", "3", "4", "5", "6", "7", "8", "9">>

TwoDigits(n) == <<Digits[((n \div 10) % 10) + 1], Digits[(n % 10) + 1]>>

FourDigits(n) == TwoDigits(n \div 100) \o TwoDigits(n % 100)

\* timestamp_start.strftime("%B %d, %Y at %I:%M %p")
strftime(dt) ==
    LET d == date_of(dt)
        hour == (dt % 1440) \div 60
        hour12 == IF hour % 12 = 0 THEN 12 ELSE hour % 12
    IN  MonthNames[d.month] \o <<" ">> \o TwoDigits(d.day) \o <<",", " ">>
        \o FourDigits(d.year) \o <<" ", "a", "t", " ">>
        \o TwoDigits(hour12) \o <<":">> \o TwoDigits(dt % 60) \o <<" ">>
        \o (IF hour < 12 THEN <<"A", "M">> ELSE <<"P", "M">>)

\* The characters of a location name (names are atoms in the tables).
LocationText(location_name) ==
    IF location_name = "Main St" THEN <<"M", "a", "i", "n", " ", "S", "t">> ELSE <<>>

\* entry = f"[{timestamp}{location}] {speaker_name}: {transcript_text}"
format_entry(transcript) ==
    LET timestamp == strftime(transcript.timestamp_start)
        location == IF transcript.location_name # None
                    THEN <<" ", "a", "t", " ">> \o LocationText(transcript.location_name)
                    ELSE <<>>
    IN  <<"[">> \o timestamp \o location \o <<"]", " ">> \o transcript.speaker_name
        \o <<":", " ">> \o transcript.transcript_text

Ellipsis == <<".", ".", ".">>

\* "\n\n".join(context_parts)
RECURSIVE join(_)
join(parts) ==
    IF parts = <<>> THEN <<>>
    ELSE IF Len(parts) = 1 THEN parts[1]
    ELSE parts[1] \o <<"\n", "\n">> \o join(Tail(parts))

remaining_without_room(max_chars, total_chars) == max_chars - total_chars + 1

\* remaining = max_chars - total_chars - 50
remaining(max_chars, total_chars) == max_chars - total_chars - 50

worth_truncating_always(remaining_chars) == TRUE

\* if remaining > 100
worth_truncating(remaining_chars) == remaining_chars > 100

\* entry[:remaining], for remaining > 0
truncate(entry, length) ==
    SubSeq(entry, 1, IF length < Len(entry) THEN length ELSE Len(entry))

\* The for loop of build_chat_context from its i-th transcript on.
RECURSIVE context_loop(_, _, _, _, _)
context_loop(rows, i, max_chars, context_parts, total_chars) ==
    IF i > Len(rows) THEN context_parts
    ELSE LET entry == format_entry(rows[i]) IN
         IF total_chars + Len(entry) > max_chars
         THEN (IF worth_truncating(remaining(max_chars, total_chars))
               THEN Append(context_parts,
                           truncate(entry, remaining(max_chars, total_chars))
                               \o Ellipsis)
               ELSE context_parts)
         ELSE context_loop(rows, i + 1, max_chars, Append(context_parts, entry),
                           total_chars + Len(entry) + 2)

build_chat_context(rows, max_tokens) ==
    IF rows = <<>> THEN <<>>
    ELSE join(context_loop(rows, 1, max_tokens * AVG_CHARS_PER_TOKEN, <<>>, 0))

\* The system prompt: whom it addresses and which of its two endings it
\* has, the one that quotes the context or the one that reports none.
get_system_prompt(context, user_name) ==
    [user_name |-> user_name, context |-> context, found |-> context # <<>>]

yielded_with_empty_deltas(deltas) == deltas

\* async for chunk in stream: the delta contents that are yielded, a chunk
\* without content being written "".
yielded(deltas) == SelectSeq(deltas, LAMBDA delta : delta # "")

\* The messages get_chat_response_stream sends and the chunks it yields for
\* a given behaviour of the completions API: its deltas, in order, and
\* whether it raises at the end of them.
get_chat_response_stream(message, conversation_history, context, user_name, api) ==
    [messages |-> <<[role |-> "system",
                     content |-> get_system_prompt(context, user_name)]>>
                  \o conversation_history
                  \o <<[role |-> "user", content |-> message]>>,
     chunks |-> yielded(api.deltas),
     raised |-> api.raises]

text_snippet_uncut(transcript_text) == transcript_text

\* transcript_text[:200] + "..." if len(transcript_text) > 200 else transcript_text
text_snippet(transcript_text) ==
    IF Len(transcript_text) > 200
    THEN SubSeq(transcript_text, 1, 200) \o Ellipsis
    ELSE transcript_text

citation(transcript) ==
    [type |-> "citation", transcript_id |-> transcript.id,
     speaker_name |-> transcript.speaker_name,
     timestamp |-> transcript.timestamp_start,
     location |-> transcript.location_name,
     text_snippet |-> text_snippet(transcript.transcript_text)]

events_after_text_done_after_error(raised, top) ==
    IF raised THEN <<[type |-> "error"], [type |-> "done"]>>
    ELSE [i \in 1..Len(top) |-> citation(top[i])] \o <<[type |-> "done"]>>

\* What follows the text events: the except branch's error event when the
\* generation raised, the citations and the done event otherwise.
events_after_text(raised, top) ==
    IF raised THEN <<[type |-> "error"]>>
    ELSE [i \in 1..Len(top) |-> citation(top[i])] \o <<[type |-> "done"]>>

\* The events generate_sse_stream yields, and the messages it sent.
generate_sse_stream(message, conversation_history, rows, user_name, api) ==
    LET context == build_chat_context(rows, MAX_CONTEXT_TOKENS)
        response == get_chat_response_stream(message, conversation_history,
                                             context, user_name, api)
        text == [i \in 1..Len(response.chunks) |->
                    [type |-> "text", content |-> response.chunks[i]]]
        top == SubSeq(rows, 1, IF Len(rows) < 5 THEN Len(rows) ELSE 5)
    IN  [messages |-> response.messages,
         events |-> text \o events_after_text(response.raised, top)]

\* POST /chat at the instant now_utc, for given answers of the embeddings
\* API and behaviour of the completions API.
chat(fb, message, timezone, now_utc, embedded, api) ==
    LET user == users[fb.uid]
        request == [message |-> message, timezone |-> timezone, now_utc |-> now_utc]
        time_filter == parse_time_filter(message, timezone, now_utc)
        query_embedding == embed_text(message, embedded)
    IN
    IF ~user.registered
    THEN Reply([op |-> "chat", uid |-> fb.uid, status |-> 404, request |-> request,
                detail |-> "User not found", embedded |-> embedded, api |-> api,
                calls |-> <<>>])
    ELSE IF ~query_embedding.ok
    THEN Reply([op |-> "chat", uid |-> fb.uid, status |-> 500, request |-> request,
                detail |-> "Failed to process query", embedded |-> embedded,
                api |-> api, calls |-> <<"embed_text">>])
    ELSE \E found \in vector_search(Rows, query_embedding.value, user.id,
                                    time_filter.start_utc, time_filter.end_utc, 10) :
            Reply([op |-> "chat", uid |-> fb.uid, status |-> 200,
                   request |-> request, time_filter |-> time_filter,
                   query_embedding |-> query_embedding.value,
                   transcripts |-> found, embedded |-> embedded, api |-> api,
                   calls |-> <<"embed_text", "vector_search",
                               "get_chat_response_stream">>,
                   stream |-> generate_sse_stream(message, <<>>, found,
                                                  user.name, api)])

----------------------------------------------------------------------------
(* Requests explored                                                       *)

V10 == <<1, 0>>
V11 == <<1, 1>>
V01 == <<0, 1>>

\* A 16 kHz mono 16-bit PCM file of the given length whose speaker
\* embedding is `voice`.
Wav(seconds, voice) ==
    [readable |-> TRUE, nbytes |-> 44 + 32000 * seconds, riff |-> TRUE, wave |-> TRUE,
     chunks |-> <<FmtChunk(1, 1, 16000, 16), DataChunk(32000 * seconds)>>,
     voice |-> voice]

Unreadable == [Wav(10, Failed) EXCEPT !.readable = FALSE]
TooSmall == [Wav(10, Failed) EXCEPT !.nbytes = 10, !.chunks = <<>>]
NotRiff == [Wav(10, Failed) EXCEPT !.riff = FALSE]
NoDataChunk == [Wav(10, Failed) EXCEPT !.chunks = <<FmtChunk(1, 1, 16000, 16), ListChunk>>]
\* A-law: rejected by the validator, decoded by the audio library
ALaw(seconds, voice) ==
    [Wav(seconds, voice) EXCEPT !.chunks = <<FmtChunk(6, 1, 8000, 8), DataChunk(8000 * seconds)>>]

GoodChunk == Wav(10, Returned(V10))

EnrollAudios ==
    {Wav(20, Returned(V10)), Wav(14, Returned(V10)), Wav(20, Failed),
     Wav(20, Returned(<<1>>))}

ChunkAudios ==
    {GoodChunk, Wav(10, Returned(V01)), Wav(10, Returned(V11)),
     Wav(61, Returned(V10)), ALaw(10, Returned(V10)), NotRiff, Unreadable}

ZuluTime(w) == <<DateTime(w), Zulu>>
QuotedZuluTime(w) == <<Quote, DateTime(w), Zulu, Quote>>
OffsetTime(w, m) == <<DateTime(w), Offset(m)>>
NaiveTime(w) == <<DateTime(w)>>
Malformed == <<Zulu>>

Text == <<"a", " ", "b", " ", "c">>

WhisperAnswers ==
    {Failed, Returned(<<>>), Returned(<<"a">>),
     Returned(<<"W", "w", "w", ".", " ", "b", " ", "c">>),
     Returned(<<" ">> \o Text \o <<" ">>)}

GeocodeAnswers == {Failed, Returned("Main St")}

EmbedAnswers == {Failed, Returned(V10)}

Request(fb, timestamp_start, timestamp_end, latitude, longitude, audio) ==
    [fb |-> fb, timestamp_start |-> timestamp_start, timestamp_end |-> timestamp_end,
     latitude |-> latitude, longitude |-> longitude, audio |-> audio]

\* Chunks of every kind of audio and one with a malformed timestamp from
\* the first caller; a plain chunk from the others.
ChunkRequests ==
    {Request(TokenOf("u1"), ZuluTime(0), ZuluTime(0), None, None, audio) :
        audio \in ChunkAudios}
    \cup {Request(TokenOf("u1"), Malformed, ZuluTime(0), None, None, GoodChunk)}
    \cup {Request(fb, ZuluTime(0), ZuluTime(0), None, None, GoodChunk) :
        fb \in FirebaseUsers}

\* Chunks that carry a latitude, with or without a longitude.
LocatedRequests ==
    {Request(TokenOf("u1"), ZuluTime(0), ZuluTime(0), "40.0", lon, GoodChunk) :
        lon \in {None, "-105.0"}}

\* Start and end fields: in time order, inverted, quoted, with an offset,
\* naive, malformed.
TimestampPairs ==
    {<<ZuluTime(w), ZuluTime(w)>> : w \in {0, 5, 11}}
    \cup {<<ZuluTime(5), ZuluTime(0)>>,
          <<QuotedZuluTime(0), QuotedZuluTime(0)>>,
          <<OffsetTime(5, 5), OffsetTime(5, 5)>>,
          <<NaiveTime(0), NaiveTime(0)>>,
          <<ZuluTime(0), Malformed>>}

TimedRequests ==
    {Request(TokenOf(uid), t[1], t[2], None, None, GoodChunk) :
        uid \in {"u1", "u2"}, t \in TimestampPairs}

Register == \E fb \in FirebaseUsers : register(fb)

Enroll == \E fb \in FirebaseUsers : \E audio \in EnrollAudios : enroll_voice(fb, audio)

TranscribeChunk ==
    /\ Len(transcripts) < MaxRows
    /\ \E request \in ChunkRequests :
        transcribe_audio(request, WhisperAnswers, {Failed}, EmbedAnswers)

TranscribeLocated ==
    /\ Len(transcripts) < MaxRows
    /\ \E request \in LocatedRequests :
        transcribe_audio(request, {Returned(Text)}, GeocodeAnswers, {Returned(V10)})

Next == Register \/ Enroll \/ TranscribeChunk \/ TranscribeLocated

Spec == Init /\ [][Next]_vars

\* The same handlers, driven by chunks that differ in their timestamps.
EnrollGood ==
    \E fb \in FirebaseUsers : enroll_voice(fb, Wav(20, Returned(V10)))

TranscribeTimed ==
    /\ Len(transcripts) < MaxTimedRows
    /\ \E request \in TimedRequests :
        transcribe_audio(request, {Returned(Text)}, {Failed}, {Returned(V10)})

NextSession == Register \/ EnrollGood \/ TranscribeTimed

SpecSession == Init /\ [][NextSession]_vars

\* GET /transcripts over tables filled by two users; the chunks of the
\* first start at minute 0 or 11, in any order of arrival.
ListedRequests ==
    {Request(TokenOf("u1"), ZuluTime(w), ZuluTime(w), None, None, GoodChunk) :
        w \in {0, 11}}
    \cup {Request(TokenOf("u2"), ZuluTime(0), ZuluTime(0), None, None, GoodChunk)}

TranscribeListed ==
    /\ Len(transcripts) < MaxListRows
    /\ \E request \in ListedRequests :
        transcribe_audio(request, {Returned(Text)}, {Failed}, {Returned(V10)})

\* The limit, offset and session_id query parameters that are explored
\* (limit: ge=1, le=100; offset: ge=0; session_id: absent or any uuid).
Limits == {1, 2}
Offsets == {0, 1, 2}
SessionFilters == {NoUuid} \cup 1..MaxListRows

GetTranscripts ==
    \E fb \in FirebaseUsers : \E limit \in Limits : \E offset \in Offsets :
    \E session_id \in SessionFilters :
    \E response \in get_transcripts(fb, limit, offset, session_id) :
        /\ last' = [op |-> "get_transcripts", uid |-> fb.uid,
                    status |-> response.status, body |-> response,
                    request |-> [limit |-> limit, offset |-> offset,
                                 session_id |-> session_id]]
        /\ UNCHANGED <<users, transcripts, uuid_counter, in_flight>>

NextList == Register \/ EnrollGood \/ TranscribeListed \/ GetTranscripts

SpecList == Init /\ [][NextList]_vars

Question == <<"h", "i">>

\* Semantic search and POST /chat on 11 March 2024 at noon in Denver, the
\* day after the clocks went forward: local yesterday runs from 07:00 UTC
\* on the 10th to 06:00 UTC on the 11th.
ChatNow == datetime(2024, 3, 11, 18, 0)
YesterdayStart == datetime(2024, 3, 10, 7, 0)
TodayStart == datetime(2024, 3, 11, 6, 0)

\* Chunks of the first user stamped a minute before local yesterday, at its
\* first minute, at the local midnight that ends it and a minute later,
\* all embedded as V10; chunks inside it embedded as V01 or not embedded;
\* one chunk of the second user.
SearchedChunks ==
    {<<"u1", w, Returned(V10)>> :
        w \in {YesterdayStart - 1, YesterdayStart, TodayStart, TodayStart + 1}}
    \cup {<<"u1", YesterdayStart + 60, Returned(V01)>>,
          <<"u1", YesterdayStart + 60, Failed>>,
          <<"u2", YesterdayStart + 60, Returned(V10)>>}

TranscribeSearched ==
    /\ Len(transcripts) < MaxSearchRows
    /\ \E chunk \in SearchedChunks :
        transcribe_audio(Request(TokenOf(chunk[1]), ZuluTime(chunk[2]),
                                 ZuluTime(chunk[2]), None, None, GoodChunk),
                         {Returned(Text)}, {Failed}, {chunk[3]})

SearchBounds ==
    {<<NoTime, NoTime>>, <<YesterdayStart, TodayStart>>,
     <<YesterdayStart, NoTime>>, <<NoTime, TodayStart>>}

\* The searches explored: user, query vector, bounds and limit.
Searches ==
    {<<"u1", V10, bounds, 10>> : bounds \in SearchBounds}
    \cup {<<"u1", V10, <<NoTime, NoTime>>, 1>>,
          <<"u1", V01, <<NoTime, NoTime>>, 1>>,
          <<"u1", V01, <<YesterdayStart, TodayStart>>, 1>>,
          <<"u2", V10, <<NoTime, NoTime>>, 10>>}

\* ChatService.vector_search
VectorSearch ==
    \E search \in Searches :
    LET user_id == search[1]
        query_embedding == search[2]
        bounds == search[3]
        limit == search[4]
    IN
    \E found \in vector_search(Rows, query_embedding, user_id,
                               bounds[1], bounds[2], limit) :
        Reply([op |-> "vector_search", uid |-> user_id,
               query_embedding |-> query_embedding,
               time_filter |-> TimeFilter(None, bounds[1], bounds[2]),
               limit |-> limit, transcripts |-> found])

YesterdayQuestion == <<"w", "h", "a", "t", " ", "d", "i", "d", " ", "I", " ", "d", "i", "s", "c", "u", "s", "s", " ", "y", "e", "s", "t", "e", "r", "d", "a", "y">>

\* The requests explored: caller, message, the zone the client names and
\* the outcome of embedding the message.
Questions ==
    {<<TokenOf(uid), YesterdayQuestion, "America/Denver", Returned(V10)>> :
        uid \in {"u1", "u2"}}
    \cup {<<TokenOf("u1"), YesterdayQuestion, "Mars/Olympus", Returned(V10)>>,
          <<TokenOf("u1"), Question, "America/Denver", Returned(V10)>>,
          <<TokenOf("u1"), Question, "America/Denver", Failed>>}

Chat ==
    \E question \in Questions :
        chat(question[1], question[2], question[3], ChatNow, question[4],
             [deltas |-> <<"Hel", "", "lo">>, raises |-> FALSE])

NextChat == Register \/ EnrollGood \/ TranscribeSearched \/ VectorSearch \/ Chat

SpecChat == Init /\ [][NextChat]_vars

\* Every kind of request, against one user's voiceprint: enrollments with
\* two voices and with each way of failing, chunks in the first voice, the
\* listing and a question.
LifecycleAudios ==
    {Wav(20, Returned(V10)), Wav(20, Returned(V01)), Wav(14, Returned(V10)),
     Wav(20, Failed), Wav(20, Returned(<<1>>)), Unreadable}

EnrollLifecycle ==
    \E fb \in FirebaseUsers : \E audio \in LifecycleAudios : enroll_voice(fb, audio)

TranscribeLifecycle ==
    /\ Len(transcripts) < MaxLifecycleRows
    /\ \E uid \in {"u1", "u2"} :
        transcribe_audio(Request(TokenOf(uid), ZuluTime(0), ZuluTime(0), None,
                                 None, GoodChunk),
                         {Returned(Text)}, {Failed}, {Returned(V10)})

ListLifecycle ==
    \E fb \in FirebaseUsers : \E response \in get_transcripts(fb, 2, 0, NoUuid) :
        Reply([op |-> "get_transcripts", uid |-> fb.uid, status |-> response.status,
               body |-> response,
               request |-> [limit |-> 2, offset |-> 0, session_id |-> NoUuid]])

ChatLifecycle ==
    \E fb \in FirebaseUsers :
        chat(fb, Question, "UTC", ChatNow, Returned(V10),
             [deltas |-> <<"Hel", "", "lo">>, raises |-> FALSE])

NextLifecycle ==
    Register \/ EnrollLifecycle \/ TranscribeLifecycle \/ ListLifecycle
        \/ ChatLifecycle

SpecLifecycle == Init /\ [][NextLifecycle]_vars

\* POST /transcribe for requests that overlap: an accepted chunk with text,
\* followed from one await of transcribe_audio to the next.  A task holds
\* the locals of its request.
AppendRequests ==
    {Request(TokenOf("u1"), ZuluTime(w), ZuluTime(w), None, None, GoodChunk) :
        w \in {0, 3, 9}}

Appending(task) ==
    tasks[task].pc \in {"get_or_create_session_id", "embed_text", "commit"}

\* Lines 70-212: the chunk passes the timestamp parser, the speaker gate
\* and Whisper, and its text is not empty.
BeginTranscribe(task) ==
    /\ FirstIdle(task)
    /\ Len(transcripts) + Cardinality({other \in Tasks : Appending(other)})
          < MaxAppendRows
    /\ \E request \in AppendRequests :
       LET user == users[request.fb.uid]
           parsed_timestamp_start == parse_timestamp(request.timestamp_start)
           parsed_timestamp_end == parse_timestamp(request.timestamp_end)
       IN  /\ parsed_timestamp_start.ok /\ parsed_timestamp_end.ok
           /\ request.audio.readable
           /\ user.registered
           /\ ~voiceprint_missing(user)
           /\ LET verified == verify_speaker(request.audio, user.voiceprint_embedding,
                                             speaker_verification_threshold)
                  transcribed == transcribe(Returned(Text))
              IN  /\ verified.ok /\ verified.value.is_match
                  /\ transcribed.ok /\ ~is_empty_transcript(transcribed.value)
                  /\ tasks' = [tasks EXCEPT ![task] =
                        [pc |-> "get_or_create_session_id", request |-> request,
                         user |-> user,
                         timestamp_start |-> parsed_timestamp_start.value,
                         timestamp_end |-> parsed_timestamp_end.value,
                         similarity |-> verified.value.similarity,
                         transcript_text |-> transcribed.value,
                         session_id |-> NoUuid, embedding |-> NoVector,
                         calls |-> <<"verify_speaker", "transcribe">>]]
    /\ UNCHANGED <<users, transcripts, uuid_counter, last, handles, cache, user_rows>>

\* Line 215: the one read of get_or_create_session_id, over the rows
\* committed at this moment.
ReadSession(task) ==
    /\ tasks[task].pc = "get_or_create_session_id"
    /\ \E session_id \in get_or_create_session_id(Rows, tasks[task].user.id,
                              tasks[task].timestamp_start, uuid_counter + 1) :
          /\ tasks' = [tasks EXCEPT ![task].pc = "embed_text",
                                    ![task].session_id = session_id,
                                    ![task].calls = @ \o <<"get_or_create_session_id">>]
          /\ uuid_counter' = IF session_id = uuid_counter + 1
                             THEN uuid_counter + 1 ELSE uuid_counter
    /\ UNCHANGED <<users, transcripts, last, handles, cache, user_rows>>

\* Lines 252-269: the embeddings API answers (its failures are explored
\* under Spec).
EmbedText(task) ==
    /\ tasks[task].pc = "embed_text"
    /\ \E embedded \in {Returned(V10)} :
       LET embedding == embed_text(prepare_transcript_for_embedding(
                                       tasks[task].user.name,
                                       tasks[task].transcript_text), embedded)
       IN  tasks' = [tasks EXCEPT ![task].pc = "commit",
                                  ![task].embedding =
                                      IF embedding.ok THEN embedding.value ELSE NoVector,
                                  ![task].calls = @ \o <<"embed_text">>]
    /\ UNCHANGED <<users, transcripts, uuid_counter, last, handles, cache, user_rows>>

\* Line 255: the request stops while it awaits the embeddings API (the
\* client goes away and the task is cancelled, or the process ends): the
\* CancelledError is no Exception, so line 262 does not catch it.
StopInEmbedding(task) ==
    /\ tasks[task].pc = "embed_text"
    /\ tasks' = [tasks EXCEPT ![task].pc = "stopped",
                              ![task].calls = @ \o <<"embed_text">>]
    /\ UNCHANGED <<users, transcripts, uuid_counter, last, handles, cache, user_rows>>

committed_session_read_again(task, rows) ==
    IF RowsOf(rows, tasks[task].user.id) = {} THEN tasks[task].session_id
    ELSE LET last_transcript ==
                 CHOOSE r \in last_transcript_candidates(rows, tasks[task].user.id) : TRUE
         IN  IF exceeds_gap(tasks[task].timestamp_start - last_transcript.timestamp_end)
             THEN tasks[task].session_id
             ELSE last_transcript.session_id

\* Transcript(session_id=session_id): the value line 215 returned.
committed_session(task, rows) == tasks[task].session_id

\* Lines 271-299: db.add, commit, and the response.
CommitTranscript(task) ==
    /\ tasks[task].pc = "commit"
    /\ LET mine == tasks[task]
           transcript == Transcript(Len(transcripts) + 1, mine.user,
                             committed_session(task, Rows), mine.transcript_text,
                             mine.timestamp_start, mine.timestamp_end,
                             None, None, None)
           stored == [transcript EXCEPT !.embedding = mine.embedding]
       IN  /\ transcripts' = Append(transcripts, stored)
           /\ last' = Response("transcribe", mine.user.id, 200,
                         TranscribeResponse(TRUE, <<TranscriptSegment(stored)>>, 0,
                                            stored.session_id),
                         mine.calls \o <<"commit">>, mine.request,
                         mine.similarity, mine.transcript_text)
    /\ tasks' = [tasks EXCEPT ![task] = Idle]
    /\ UNCHANGED <<users, uuid_counter, handles, cache, user_rows>>

RegisterFirst == register(TokenOf("u1"))

EnrollFirst == enroll_voice(TokenOf("u1"), Wav(20, Returned(V10)))

NextAppend ==
    \/ RegisterFirst
    \/ EnrollFirst
    \/ \E task \in Tasks :
          \/ BeginTranscribe(task)
          \/ ReadSession(task)
          \/ EmbedText(task)
          \/ StopInEmbedding(task)
          \/ CommitTranscript(task)

SpecAppend == Init /\ [][NextAppend]_vars

\* The lazy accessors called from the threads of a multi-threaded host, one
\* call per task, followed statement by statement:
\*     if _service is None:  _service = Service()  return _service
\* and likewise for the model property over self._model.
CallAccessor(task) ==
    /\ FirstIdle(task)
    /\ \E accessor \in Accessors :
          tasks' = [tasks EXCEPT ![task] =
                       [pc |-> "if", accessor |-> accessor,
                        retained_at_start |-> handles[accessor]]]
    /\ UNCHANGED <<users, transcripts, uuid_counter, last, handles, cache, user_rows>>

\* if _service is None:
TestHandle(task) ==
    /\ tasks[task].pc = "if"
    /\ tasks' = [tasks EXCEPT ![task].pc =
                    IF handles[tasks[task].accessor] = NoHandle
                    THEN "create" ELSE "return"]
    /\ UNCHANGED <<users, transcripts, uuid_counter, last, handles, cache, user_rows>>

\* _service = Service()
CreateHandle(task) ==
    /\ tasks[task].pc = "create"
    /\ handles' = [handles EXCEPT ![tasks[task].accessor] = task]
    /\ tasks' = [tasks EXCEPT ![task].pc = "return"]
    /\ UNCHANGED <<users, transcripts, uuid_counter, last, cache, user_rows>>

\* return _service
ReturnHandle(task) ==
    /\ tasks[task].pc = "return"
    /\ tasks' = [tasks EXCEPT ![task] =
                    [pc |-> "returned", accessor |-> tasks[task].accessor,
                     retained_at_start |-> tasks[task].retained_at_start,
                     returned |-> handles[tasks[task].accessor]]]
    /\ last' = [op |-> "accessor", accessor |-> tasks[task].accessor,
                returned |-> handles[tasks[task].accessor]]
    /\ UNCHANGED <<users, transcripts, uuid_counter, handles, cache, user_rows>>

NextServices ==
    \E task \in Tasks :
        \/ CallAccessor(task)
        \/ TestHandle(task)
        \/ CreateHandle(task)
        \/ ReturnHandle(task)

SpecServices == Init /\ [][NextServices]_vars

\* GeocodingService.reverse_geocode for lookups that overlap.  A coordinate
\* is counted in units of 0.00001 degree, a cache key in units of 0.0001.
\* CACHE_SIZE is 1000 in the source; the capacity explored is smaller.
CACHE_SIZE == 2

\* round(x, 4), for coordinates that do not lie halfway between two keys
round4(x) == (x + 5) \div 10

_round_coords(lat, lon) == <<round4(lat), round4(lon)>>

\* Two points that share a key, and two more with keys of their own.
Points == {<<1234, -1234>>, <<1226, -1226>>, <<1236, -1234>>, <<2000, 2000>>}

\* The outcomes of the Nominatim request: an address that
\* _format_location turns into a name, a reply it turns into None (an
\* "error" member, or nothing usable), or an exception (HTTP status,
\* transport, malformed body).
NominatimAnswers == {Returned("Main St"), Returned(None), Failed}

has_room_always(size) == TRUE

\* len(self._cache) < CACHE_SIZE
has_room(size) == size < CACHE_SIZE

\* Lines 55-73: the cache is looked up; a hit returns at once, a miss
\* sends the request and awaits its answer.
LookUp(task) ==
    /\ FirstIdle(task)
    /\ \E point \in Points :
       LET cache_key == _round_coords(point[1], point[2]) IN
       IF cache_key \in DOMAIN cache
       THEN /\ last' = [op |-> "reverse_geocode", point |-> point,
                        cache_key |-> cache_key, hit |-> TRUE, called |-> FALSE,
                        answer |-> [asked |-> FALSE],
                        returned |-> cache[cache_key]]
            /\ UNCHANGED tasks
       ELSE /\ tasks' = [tasks EXCEPT ![task] =
                           [pc |-> "get", point |-> point, cache_key |-> cache_key]]
            /\ UNCHANGED last
    /\ UNCHANGED <<users, transcripts, uuid_counter, handles, cache, user_rows>>

\* Lines 74-115: the answer arrives; a name or None is cached while there
\* is room, an exception is logged and None returned.
Answered(task) ==
    /\ tasks[task].pc = "get"
    /\ \E answer \in NominatimAnswers :
       LET cache_key == tasks[task].cache_key IN
       /\ cache' = IF answer.ok /\ has_room(Cardinality(DOMAIN cache))
                   THEN [key \in DOMAIN cache \cup {cache_key} |->
                            IF key = cache_key THEN answer.value ELSE cache[key]]
                   ELSE cache
       /\ last' = [op |-> "reverse_geocode", point |-> tasks[task].point,
                   cache_key |-> cache_key, hit |-> FALSE, called |-> TRUE,
                   answer |-> answer,
                   returned |-> IF answer.ok THEN answer.value ELSE None]
    /\ tasks' = [tasks EXCEPT ![task] = Idle]
    /\ UNCHANGED <<users, transcripts, uuid_counter, handles, user_rows>>

NextGeocoding == \E task \in Tasks : LookUp(task) \/ Answered(task)

SpecGeocoding == Init /\ [][NextGeocoding]_vars

\* POST /auth/register for requests that overlap, followed from the SELECT
\* to the commit, over the users table as a sequence of rows.
UserRowsOf(rows, firebase_uid) ==
    {i \in 1..Len(rows) : rows[i].firebase_uid = firebase_uid}

violates_unique_never(rows, firebase_uid) == FALSE

\* firebase_uid: unique=True, checked by the database when the INSERT is
\* flushed.
violates_unique(rows, firebase_uid) == UserRowsOf(rows, firebase_uid) # {}

\* Lines 22-48: the SELECT; an existing row or a missing email ends the
\* request, otherwise the new User is built.
SelectUser(task) ==
    /\ FirstIdle(task)
    /\ Len(user_rows) + Cardinality({other \in Tasks : tasks[other].pc = "commit"})
          < MaxUserRows
    /\ \E fb \in FirebaseUsers :
       LET found == UserRowsOf(user_rows, fb.uid) IN
       IF found # {}
       THEN LET existing_user == user_rows[CHOOSE i \in found : TRUE] IN
            /\ last' = Response("register", fb.uid, 200,
                          [user_id |-> existing_user.id, email |-> existing_user.email,
                           name |-> existing_user.name,
                           is_enrolled |-> existing_user.voiceprint_embedding # NoVector,
                           created |-> FALSE],
                          <<>>, fb, NoSimilarity, <<>>)
            /\ UNCHANGED tasks
       ELSE IF fb.email = <<>>
       THEN /\ last' = HTTPException("register", fb.uid, 400, "Email is required",
                                     <<>>, fb, NoSimilarity)
            /\ UNCHANGED tasks
       ELSE /\ tasks' = [tasks EXCEPT ![task] =
                           [pc |-> "commit", fb |-> fb,
                            name |-> IF fb.name # <<>> THEN fb.name
                                     ELSE BeforeAt(fb.email)]]
            /\ UNCHANGED last
    /\ UNCHANGED <<users, transcripts, uuid_counter, handles, cache, user_rows>>

\* Lines 49-59: db.add and commit; the INSERT fails on a row of the same
\* firebase_uid and the IntegrityError leaves the handler (status 500).
CommitUser(task) ==
    /\ tasks[task].pc = "commit"
    /\ LET fb == tasks[task].fb IN
       IF violates_unique(user_rows, fb.uid)
       THEN /\ last' = HTTPException("register", fb.uid, 500, "IntegrityError",
                                     <<"commit">>, fb, NoSimilarity)
            /\ UNCHANGED <<user_rows, uuid_counter>>
       ELSE LET new_user == [id |-> uuid_counter + 1, firebase_uid |-> fb.uid,
                             email |-> fb.email, name |-> tasks[task].name,
                             voiceprint_embedding |-> NoVector] IN
            /\ user_rows' = Append(user_rows, new_user)
            /\ uuid_counter' = uuid_counter + 1
            /\ last' = Response("register", fb.uid, 200,
                          [user_id |-> new_user.id, email |-> new_user.email,
                           name |-> new_user.name, is_enrolled |-> FALSE,
                           created |-> TRUE],
                          <<"commit">>, fb, NoSimilarity, <<>>)
    /\ tasks' = [tasks EXCEPT ![task] = Idle]
    /\ UNCHANGED <<users, transcripts, handles, cache>>

\* enrollment.py lines 108-109 on a row of the table: the enrollment of a
\* registered user stores the voiceprint.
EnrollRow ==
    /\ \E i \in 1..Len(user_rows) :
          /\ user_rows[i].voiceprint_embedding = NoVector
          /\ user_rows' = [user_rows EXCEPT ![i] = enrolled_user(user_rows[i], V10)]
          /\ last' = Response("enroll", user_rows[i].firebase_uid, 200,
                        [success |-> TRUE], <<"commit">>,
                        TokenOf(user_rows[i].firebase_uid), NoSimilarity, <<>>)
    /\ UNCHANGED <<users, transcripts, uuid_counter, tasks, handles, cache>>

NextRegister ==
    \/ EnrollRow
    \/ \E task \in Tasks : SelectUser(task) \/ CommitUser(task)

SpecRegister == Init /\ [][NextRegister]_vars

\* A function applied once to arguments drawn from bounded sets: the tables
\* are empty, and `last` holds the pending call and then its result.
EmptyTables ==
    /\ users = [uid \in FirebaseUids |-> NoUser]
    /\ transcripts = <<>>
    /\ uuid_counter = 0
    /\ NothingInFlight

Call(function, arguments) ==
    [op |-> "call", function |-> function, arguments |-> arguments]

Pending(function) == last.op = "call" /\ last.function = function

\* SpeakerVerificationService.compare_embeddings on pairs of vectors whose
\* components range over -MaxComponent..MaxComponent.
Embeddings == {<<x, y>> : x, y \in (0 - MaxComponent)..MaxComponent}

InitSimilarity ==
    /\ EmptyTables
    /\ last \in {Call("compare_embeddings", [embedding1 |-> a, embedding2 |-> b]) :
                    a, b \in Embeddings}

CompareEmbeddings ==
    /\ Pending("compare_embeddings")
    /\ last' = [op |-> "compare_embeddings",
                embedding1 |-> last.arguments.embedding1,
                embedding2 |-> last.arguments.embedding2,
                similarity |-> compare_embeddings(last.arguments.embedding1,
                                                  last.arguments.embedding2)]
    /\ UNCHANGED <<users, transcripts, uuid_counter, in_flight>>

NextSimilarity == CompareEmbeddings

SpecSimilarity == InitSimilarity /\ [][NextSimilarity]_vars

\* ChatService.parse_time_filter on queries that hold none, one or two of
\* the patterns, in four zones (one unknown), at instants around the turns
\* of months, of a leap day, of a year and of daylight saving time.
TimePatterns ==
    {TodayPattern, YesterdayPattern, ThisWeekPattern, LastWeekPattern,
     ThisMonthPattern, LastMonthPattern}

TimeQueries ==
    {<<"w", "h", "a", "t", " ", "a", "b", "o", "u", "t", " ", "t", "h", "e", " ", "p", "a", "n", "e", "l">>, <<"l", "a", "s", "t", "m", "o", "n", "t", "h">>, <<"t", "o", " ", "d", "a", "y">>, FromTodayPattern, <<"t", "o", "d", "a", "y", "s">>, <<"x", "y", "e", "s", "t", "e", "r", "d", "a", "y", "x">>,
     <<"T", "O", "D", "A", "Y">>, <<"Y", "e", "s", "t", "e", "r", "d", "a", "y">>, <<"T", "h", "i", "s", " ", "W", "e", "e", "k">>, <<"L", "A", "S", "T", " ", "W", "E", "E", "K">>, <<"T", "h", "i", "s", " ", "m", "o", "n", "t", "h">>, <<"L", "a", "s", "t", " ", "M", "o", "n", "t", "h">>}
    \cup TimePatterns
    \cup {p \o <<" ">> \o q : p, q \in TimePatterns}

TimeZones == {"UTC", "America/Denver", "Asia/Kolkata", "Mars/Olympus"}

Nows ==
    {datetime(ym[1], ym[2], d, h, 30) :
        ym \in {<<2023, 12>>, <<2024, 1>>, <<2024, 2>>, <<2024, 3>>,
                <<2024, 11>>, <<2025, 1>>},
        d \in {1, 3, 10, 29}, h \in {3, 12}}

InitTimeFilter ==
    /\ EmptyTables
    /\ last \in {Call("parse_time_filter",
                     [query |-> q, client_timezone |-> tz, now_utc |-> now]) :
                    q \in TimeQueries, tz \in TimeZones, now \in Nows}

ParseTimeFilter ==
    /\ Pending("parse_time_filter")
    /\ last' = [op |-> "parse_time_filter",
                query |-> last.arguments.query,
                client_timezone |-> last.arguments.client_timezone,
                now_utc |-> last.arguments.now_utc,
                result |-> parse_time_filter(last.arguments.query,
                                             last.arguments.client_timezone,
                                             last.arguments.now_utc)]
    /\ UNCHANGED <<users, transcripts, uuid_counter, in_flight>>

NextTimeFilter == ParseTimeFilter

SpecTimeFilter == InitTimeFilter /\ [][NextTimeFilter]_vars

\* ChatService.build_chat_context and generate_sse_stream on lists of
\* retrieved segments.
Repeat(c, n) == [i \in 1..n |-> c]

\* A segment of the first user with a text of the given length.
Retrieved(id, length, timestamp_start, location_name) ==
    Transcript(id, UserRow(TokenOf("u1"), <<"a">>), 1, Repeat("x", length),
               timestamp_start, timestamp_start, None, None, location_name)

\* Entries of 35, 160 and 230 characters, and of 52, 177 and 247.
SegmentShapes ==
    {<<length, place[1], place[2]>> :
        length \in {5, 130, 200},
        place \in {<<datetime(2024, 5, 5, 15, 7), None>>,
                   <<datetime(2024, 9, 15, 0, 0), "Main St">>}}

RetrievedLists ==
    UNION {{[i \in 1..n |-> Retrieved(i, shapes[i][1], shapes[i][2], shapes[i][3])] :
               shapes \in [1..n -> SegmentShapes]} : n \in 0..MaxRetrieved}

TokenBudgets == {0, 10, 37, 38, 50, 100, 150, MAX_CONTEXT_TOKENS}

\* Six segments whose texts have 5, 200, 201 and 230 characters in turn.
CitedLists ==
    {[i \in 1..n |->
         Retrieved(i, <<5, 200, 201, 230>>[((i + shift) % 4) + 1],
                   datetime(2024, 5, 5, 15, 7), None)] :
        n \in 0..6, shift \in 0..3}

\* The completions API: it streams deltas (some of them empty) and ends
\* normally, or raises before or after the first delta.
ChatApis ==
    {[deltas |-> <<"Hel", "", "lo">>, raises |-> FALSE],
     [deltas |-> <<"lo", "", "lo", "Hel">>, raises |-> FALSE],
     [deltas |-> <<"">>, raises |-> FALSE],
     [deltas |-> <<>>, raises |-> TRUE],
     [deltas |-> <<"Hel">>, raises |-> TRUE],
     [deltas |-> <<"Hel", "", "lo">>, raises |-> TRUE]}

InitContext ==
    /\ EmptyTables
    /\ last \in {Call("build_chat_context",
                      [transcripts |-> rows, max_tokens |-> max_tokens]) :
                     rows \in RetrievedLists, max_tokens \in TokenBudgets}
                \cup {Call("generate_sse_stream",
                           [transcripts |-> rows, api |-> api]) :
                         rows \in CitedLists, api \in ChatApis}

BuildChatContext ==
    /\ Pending("build_chat_context")
    /\ last' = [op |-> "build_chat_context",
                transcripts |-> last.arguments.transcripts,
                max_tokens |-> last.arguments.max_tokens,
                context |-> build_chat_context(last.arguments.transcripts,
                                               last.arguments.max_tokens)]
    /\ UNCHANGED <<users, transcripts, uuid_counter, in_flight>>

GenerateSseStream ==
    /\ Pending("generate_sse_stream")
    /\ last' = [op |-> "generate_sse_stream",
                transcripts |-> last.arguments.transcripts,
                api |-> last.arguments.api,
                stream |-> generate_sse_stream(Question, <<>>,
                               last.arguments.transcripts, <<"a">>,
                               last.arguments.api)]
    /\ UNCHANGED <<users, transcripts, uuid_counter, in_flight>>

NextContext == BuildChatContext \/ GenerateSseStream

SpecContext == InitContext /\ [][NextContext]_vars

----------------------------------------------------------------------------
(* validate_wav_audio over the bytes of an upload: services/               *)
(* audio_validation.py. A byte string is a sequence of 0..255; the header  *)
(* is read through a position as io.BytesIO does, and the while loop is    *)
(* followed one iteration at a time.                                       *)

riff_marker == <<82, 73, 70, 70>>
wave_marker == <<87, 65, 86, 69>>
fmt_id == <<102, 109, 116, 32>>
data_id == <<100, 97, 116, 97>>
list_id == <<76, 73, 83, 84>>

\* header.tell() after header.read(n) at position pos.
tell(audio_bytes, pos, n) ==
    IF pos + n < Len(audio_bytes) THEN pos + n ELSE Len(audio_bytes)

\* header.read(n) at position pos: the bytes that are there, at most n.
read(audio_bytes, pos, n) == SubSeq(audio_bytes, pos + 1, tell(audio_bytes, pos, n))

RECURSIVE little_endian(_)
little_endian(buffer) ==
    IF buffer = <<>> THEN 0 ELSE Head(buffer) + 256 * little_endian(Tail(buffer))

\* struct.unpack("<H", b) for width 2 and struct.unpack("<I", b) for width
\* 4: Failed is struct.error, raised unless b has exactly width bytes.
unpack(width, buffer) ==
    IF Len(buffer) # width THEN Failed ELSE Returned(little_endian(buffer))

NoException == [type |-> None, error_code |-> None]
AudioValidationError(error_code) ==
    [type |-> "AudioValidationError", error_code |-> error_code]
OtherException(type) == [type |-> type, error_code |-> None]

\* Lines 75-80: the locals before the loop, the header at position 12.
LoopStart ==
    [pos |-> 12, fmt_found |-> FALSE, data_found |-> FALSE, sample_rate |-> 0,
     channels |-> 0, bits_per_sample |-> 0, data_size |-> 0, broke |-> FALSE,
     raised |-> NoException]

\* Lines 89-109: the fmt branch, the header just after the chunk size.
fmt_chunk(audio_bytes, st, chunk_size) ==
    LET audio_format == unpack(2, read(audio_bytes, st.pos, 2))
        p1 == tell(audio_bytes, st.pos, 2)
        ch == unpack(2, read(audio_bytes, p1, 2))
        p2 == tell(audio_bytes, p1, 2)
        rate == unpack(4, read(audio_bytes, p2, 4))
        p3 == tell(audio_bytes, tell(audio_bytes, tell(audio_bytes, p2, 4), 4), 2)
        bits == unpack(2, read(audio_bytes, p3, 2))
        p4 == tell(audio_bytes, p3, 2)
        extra_bytes == chunk_size - 16
    IN  IF ~audio_format.ok
        THEN [st EXCEPT !.pos = p1, !.raised = OtherException("struct.error")]
        ELSE IF audio_format.value \notin {1, 3}
        THEN [st EXCEPT !.pos = p1,
                        !.raised = AudioValidationError("UNSUPPORTED_FORMAT")]
        ELSE IF ~ch.ok \/ ~rate.ok \/ ~bits.ok
        THEN [st EXCEPT !.pos = p4, !.raised = OtherException("struct.error")]
        ELSE [st EXCEPT !.channels = ch.value, !.sample_rate = rate.value,
                        !.bits_per_sample = bits.value,
                        !.pos = IF extra_bytes > 0 THEN tell(audio_bytes, p4, extra_bytes)
                                ELSE p4]

\* Lines 83-117: one iteration of the while loop.
scan_chunk(audio_bytes, st) ==
    LET chunk_id == read(audio_bytes, st.pos, 4)
        p1 == tell(audio_bytes, st.pos, 4)
        chunk_size == unpack(4, read(audio_bytes, p1, 4))
        p2 == tell(audio_bytes, p1, 4)
    IN  IF Len(chunk_id) < 4 THEN [st EXCEPT !.pos = p1, !.broke = TRUE]
        ELSE IF ~chunk_size.ok
        THEN [st EXCEPT !.pos = p2, !.raised = OtherException("struct.error")]
        ELSE IF chunk_id = fmt_id
        THEN fmt_chunk(audio_bytes, [st EXCEPT !.pos = p2, !.fmt_found = TRUE],
                       chunk_size.value)
        ELSE IF chunk_id = data_id
        THEN [st EXCEPT !.pos = p2, !.data_found = TRUE,
                        !.data_size = chunk_size.value, !.broke = TRUE]
        ELSE [st EXCEPT !.pos = tell(audio_bytes, p2, chunk_size.value)]

\* Line 82 and the ways out of the loop: the loop goes round again.
in_loop(audio_bytes, st) ==
    /\ st.raised = NoException
    /\ ~st.broke
    /\ st.pos < Len(audio_bytes)

Metadata(st, num_samples) ==
    [sample_rate |-> st.sample_rate, channels |-> st.channels,
     bits_per_sample |-> st.bits_per_sample, num_samples |-> num_samples]

Raised(exception) == [raised |-> exception, returned |-> Failed]
Return(metadata) == [raised |-> NoException, returned |-> Returned(metadata)]

\* Lines 119-171: the statements after the loop. duration_seconds is
\* num_samples / sample_rate; with whole seconds as bounds and 32-bit
\* operands the float comparisons agree with the integer ones.
after_loop(st, arguments) ==
    IF st.raised # NoException THEN Raised(st.raised)
    ELSE IF ~st.fmt_found THEN Raised(AudioValidationError("INVALID_FORMAT"))
    ELSE IF ~st.data_found THEN Raised(AudioValidationError("INVALID_FORMAT"))
    ELSE LET bytes_per_sample == st.bits_per_sample \div 8 IN
         IF st.channels * bytes_per_sample = 0
         THEN Raised(OtherException("ZeroDivisionError"))
         ELSE LET num_samples == st.data_size \div (st.channels * bytes_per_sample) IN
              IF st.sample_rate = 0 THEN Raised(OtherException("ZeroDivisionError"))
              ELSE IF /\ arguments.expected_sample_rate # 0
                      /\ st.sample_rate # arguments.expected_sample_rate
              THEN Raised(AudioValidationError("INVALID_SAMPLE_RATE"))
              ELSE IF num_samples < arguments.min_duration_seconds * st.sample_rate
              THEN Raised(AudioValidationError("AUDIO_TOO_SHORT"))
              ELSE IF num_samples > arguments.max_duration_seconds * st.sample_rate
              THEN Raised(AudioValidationError("AUDIO_TOO_LONG"))
              ELSE Return(Metadata(st, num_samples))

except_clauses_reraising(outcome) == outcome

\* Lines 173-180: AudioValidationError is re-raised, every other Exception
\* becomes AudioValidationError PARSE_ERROR.
except_clauses(outcome) ==
    IF outcome.raised.type \in {None, "AudioValidationError"} THEN outcome
    ELSE Raised(AudioValidationError("PARSE_ERROR"))

\* The function has left: what it raised or returned, and the locals then.
Left(arguments, st, iterations, outcome) ==
    [op |-> "validate_wav_audio", arguments |-> arguments, st |-> st,
     iterations |-> iterations, raised |-> outcome.raised,
     returned |-> outcome.returned]

\* Lines 45-80: the length test and the RIFF and WAVE markers.
ValidateWavAudio ==
    /\ Pending("validate_wav_audio")
    /\ LET arguments == last.arguments
           audio_bytes == arguments.audio_bytes IN
       last' = IF Len(audio_bytes) < 44
               THEN Left(arguments, LoopStart, 0,
                         Raised(AudioValidationError("INVALID_FORMAT")))
               ELSE IF \/ read(audio_bytes, 0, 4) # riff_marker
                       \/ read(audio_bytes, 8, 4) # wave_marker
               THEN Left(arguments, LoopStart, 0,
                         except_clauses(Raised(AudioValidationError("INVALID_FORMAT"))))
               ELSE [op |-> "while", arguments |-> arguments, st |-> LoopStart,
                     iterations |-> 0]
    /\ UNCHANGED <<users, transcripts, uuid_counter, in_flight>>

\* Lines 82-117: the loop goes round once.
ScanChunk ==
    /\ last.op = "while"
    /\ in_loop(last.arguments.audio_bytes, last.st)
    /\ last' = [last EXCEPT !.st = scan_chunk(last.arguments.audio_bytes, last.st),
                            !.iterations = last.iterations + 1]
    /\ UNCHANGED <<users, transcripts, uuid_counter, in_flight>>

\* Lines 119-180: the loop is over; the function returns or raises.
LeaveValidation ==
    /\ last.op = "while"
    /\ ~in_loop(last.arguments.audio_bytes, last.st)
    /\ last' = Left(last.arguments, last.st, last.iterations,
                    except_clauses(after_loop(last.st, last.arguments)))
    /\ UNCHANGED <<users, transcripts, uuid_counter, in_flight>>

\* Byte strings to validate.
pack(width, n) == [i \in 1..width |-> (n \div (256 ^ (i - 1))) % 256]

Chunk(chunk_id, chunk_size, body) == chunk_id \o pack(4, chunk_size) \o body

FmtBody(format, ch, rate, bits) ==
    pack(2, format) \o pack(2, ch) \o pack(4, rate)
        \o pack(4, rate * ch * (bits \div 8)) \o pack(2, ch * (bits \div 8))
        \o pack(2, bits)

Filler(n) == [i \in 1..n |-> 0]

RiffFile(chunks) == riff_marker \o pack(4, Len(chunks) + 4) \o wave_marker \o chunks

\* format, channels, sample rate and bits per sample of the fmt chunks.
Formats ==
    {<<1, 1, 1, 8>>, <<3, 2, 2, 16>>, <<1, 2, 1, 16>>, <<1, 0, 1, 8>>,
     <<1, 1, 0, 8>>, <<1, 1, 1, 4>>, <<1, 1, 1, 0>>, <<6, 1, 1, 8>>}

\* Sizes the data chunk declares, around the bounds of both callers.
DataSizes == {0, 1, 14, 15, 29, 30, 31, 59, 60, 61, 120, 121, 240, 241}

Fmt(f) == Chunk(fmt_id, 16, FmtBody(f[1], f[2], f[3], f[4]))

\* fmt then data, nothing else.
PlainFiles ==
    {RiffFile(Fmt(f) \o Chunk(data_id, size, <<>>)) : f \in Formats, size \in DataSizes}

\* Other layouts: unknown chunks before fmt (their declared size right,
\* odd, zero or beyond the end), extra format bytes, fmt twice, data
\* before fmt, no data chunk, bytes after the data header.
Layouts ==
    LET good == Fmt(<<1, 1, 1, 8>>)
        twenty == Chunk(data_id, 20, <<>>) IN
    {RiffFile(Chunk(list_id, n, Filler(n)) \o good \o twenty) : n \in 0..MaxListBytes}
    \cup {RiffFile(Chunk(list_id, 1000, Filler(4)) \o good \o twenty),
          RiffFile(Chunk(list_id, 0, <<>>) \o Chunk(list_id, 0, <<>>)
                     \o Chunk(list_id, 0, <<>>) \o Chunk(list_id, 0, <<>>)),
          RiffFile(Chunk(fmt_id, 18, FmtBody(1, 1, 1, 8) \o Filler(2)) \o twenty),
          RiffFile(Chunk(fmt_id, 14, FmtBody(1, 1, 1, 8)) \o twenty),
          RiffFile(good \o Fmt(<<1, 2, 1, 16>>) \o twenty),
          RiffFile(twenty \o good \o Filler(4)),
          RiffFile(good \o Chunk(list_id, 2, Filler(2)) \o Filler(8)),
          RiffFile(good \o twenty \o Filler(20)),
          [RiffFile(good \o twenty) EXCEPT ![1] = 0],
          [RiffFile(good \o twenty) EXCEPT ![9] = 0]}

\* Every file cut short after any byte from the 40th on, and the empty one.
Truncated(files) ==
    {SubSeq(file, 1, IF n < Len(file) THEN n ELSE Len(file)) :
        file \in files, n \in {0} \cup 40..(MaxListBytes + 64)}

AudioByteStrings == PlainFiles \cup Truncated(Layouts)

InitAudio ==
    /\ EmptyTables
    /\ last \in {Call("validate_wav_audio",
                      [audio_bytes |-> audio_bytes,
                       min_duration_seconds |-> durations[1],
                       max_duration_seconds |-> durations[2],
                       expected_sample_rate |-> durations[3]]) :
                    audio_bytes \in AudioByteStrings,
                    durations \in {<<15, 30, 0>>, <<1, 60, 0>>, <<1, 60, 1>>}}

NextAudio == ValidateWavAudio \/ ScanChunk \/ LeaveValidation

\* A call that has begun is carried on until it leaves.
SpecAudio == InitAudio /\ [][NextAudio]_vars /\ WF_vars(NextAudio)

----------------------------------------------------------------------------
(* Properties                                                              *)

IsTranscribe(r) == r.op = "transcribe"

\* The latest step added a row to the transcripts table.
RowAdded == Len(transcripts') = Len(transcripts) + 1
NewRow == transcripts'[Len(transcripts')]

GateRejected(r) ==
    IsTranscribe(r) /\ r.similarity # NoSimilarity
                    /\ r.similarity < speaker_verification_threshold

GateAccepted(r) ==
    IsTranscribe(r) /\ r.similarity >= speaker_verification_threshold

\* C1: a chunk whose similarity is below the threshold leaves the table as
\* it was, reaches no collaborator after the speaker gate, and is answered
\* processed=true, no segment, filtered_segments=1, session_id=null.
C1_PrivacyBoundary ==
    [][GateRejected(last') =>
          /\ transcripts' = transcripts
          /\ last'.calls = <<"verify_speaker">>
          /\ last'.status = 200
          /\ last'.body = [processed |-> TRUE, segments |-> <<>>,
                           filtered_segments |-> 1, session_id |-> NoUuid]]_vars

C1_Witness == GateRejected(last) /\ Len(transcripts) > 0

HasVoiceprint(uid) ==
    users[uid].registered /\ users[uid].voiceprint_embedding # NoVector

\* C2: every stored segment belongs to a user with a voiceprint, and a
\* transcribe request of a registered user without one is answered 400
\* with no collaborator called and no row written.
C2_EnrollmentRequired ==
    /\ [](\A t \in Rows : HasVoiceprint(t.user_id))
    /\ [][(IsTranscribe(last') /\ users[last'.uid].registered
                               /\ ~HasVoiceprint(last'.uid)) =>
             /\ last'.status = 400
             /\ last'.calls = <<>>
             /\ transcripts' = transcripts]_vars

C2_Witness ==
    /\ IsTranscribe(last) /\ last.status = 400
    /\ last.body.detail = "User has not enrolled voiceprint"
    /\ users[last.uid].registered /\ ~HasVoiceprint(last.uid)
    /\ Len(transcripts) > 0

SessionIds(rows) == {t.session_id : t \in rows}

\* C3: the session of a stored chunk: a fresh id when the user has no
\* segment; else, with L a segment of the user of greatest timestamp_end,
\* L's session when the chunk starts at most 5 minutes after L ends and a
\* fresh id, unlike every stored one, when it starts later.
C3_SessionRule ==
    [][RowAdded =>
         LET mine == RowsOf(Rows, NewRow.user_id)
             fresh == NewRow.session_id \notin SessionIds(Rows)
         IN  IF mine = {} THEN fresh
             ELSE \E L \in mine :
                    /\ \A t \in mine : t.timestamp_end <= L.timestamp_end
                    /\ IF NewRow.timestamp_start - L.timestamp_end <= 5
                       THEN NewRow.session_id = L.session_id
                       ELSE fresh]_vars

\* Two segments of one user exactly 5 minutes apart share a session while
\* another user's segment lies in the table.
C3_Witness ==
    \E i, j, k \in 1..Len(transcripts) :
        /\ i < j
        /\ transcripts[i].user_id = transcripts[j].user_id
        /\ transcripts[k].user_id # transcripts[i].user_id
        /\ transcripts[j].timestamp_start - transcripts[i].timestamp_end = 5
        /\ transcripts[i].session_id = transcripts[j].session_id

\* a comes before b when the user's segments are ordered by time.
Before(a, b) ==
    \/ a.timestamp_start < b.timestamp_start
    \/ a.timestamp_start = b.timestamp_start /\ a.id < b.id

TimeAdjacent(a, b, mine) ==
    Before(a, b) /\ ~\E c \in mine : Before(a, c) /\ Before(c, b)

\* The segments of a session form a maximal run of the user's segments.
MaximalRuns(uid) ==
    LET mine == RowsOf(Rows, uid) IN
    /\ \A a, b \in mine :
          TimeAdjacent(a, b, mine) =>
             (a.session_id = b.session_id
                <=> b.timestamp_start - a.timestamp_end <= SESSION_GAP_MINUTES)
    /\ \A a, b, c \in mine :
          (Before(a, b) /\ Before(b, c) /\ a.session_id = c.session_id)
             => b.session_id = a.session_id

WellFormed(uid) ==
    \A t \in RowsOf(Rows, uid) : t.timestamp_start <= t.timestamp_end

\* Every segment of the user was stored after all segments that end before
\* it starts: the chunks arrived in time order.
ArrivedInOrder(uid) ==
    /\ WellFormed(uid)
    /\ \A a, b \in RowsOf(Rows, uid) :
          a.id < b.id => a.timestamp_end <= b.timestamp_start

\* C4 as stated: sessions are maximal runs whatever the arrival order (of
\* chunks that each end no earlier than they start).
C4_MaximalRunsAnyOrder ==
    \A uid \in FirebaseUids : WellFormed(uid) => MaximalRuns(uid)

\* C4, amended: sessions are maximal runs for a user whose chunks arrived
\* in time order.
C4_MaximalRunsInOrder ==
    \A uid \in FirebaseUids : ArrivedInOrder(uid) => MaximalRuns(uid)

\* Three segments of one user, arrived in time order, in two sessions.
C4_Witness ==
    \E uid \in FirebaseUids :
        /\ ArrivedInOrder(uid)
        /\ Cardinality(RowsOf(Rows, uid)) = 3
        /\ Cardinality(SessionIds(RowsOf(Rows, uid))) = 2

HasVisibleCharacter(text) == \E i \in 1..Len(text) : ~IsSpace(text[i])

\* Whisper answered and its text, once filtered, is empty or blank.
TranscribedNothing(r) ==
    /\ GateAccepted(r) /\ r.status = 200
    /\ r.calls[Len(r.calls)] # "verify_speaker"
    /\ ~HasVisibleCharacter(r.transcript_text)

\* C5: every stored text has a visible character, and an accepted chunk
\* that transcribes to nothing is answered processed=true, no segment,
\* filtered_segments=0, session_id=null, after the gate and Whisper only.
C5_NoEmptyText ==
    /\ [](\A t \in Rows : HasVisibleCharacter(t.transcript_text))
    /\ [][(IsTranscribe(last') /\ TranscribedNothing(last')) =>
             /\ transcripts' = transcripts
             /\ last'.calls = <<"verify_speaker", "transcribe">>
             /\ last'.body = [processed |-> TRUE, segments |-> <<>>,
                              filtered_segments |-> 0, session_id |-> NoUuid]]_vars

C5_Witness ==
    /\ TranscribedNothing(last)
    /\ last.calls = <<"verify_speaker", "transcribe">>
    /\ Len(transcripts) > 0

\* C6 as stated: every stored segment ends no earlier than it starts.
C6_EndNotBeforeStart ==
    \A t \in Rows : t.timestamp_end >= t.timestamp_start

\* The instant an aware timestamp field denotes, on the UTC clock.
UtcInstant(field) ==
    LET parsed == fromisoformat(ReplaceZ(StripQuotes(field)))
    IN  parsed.wall - parsed.utcoffset

IsAware(field) ==
    LET parsed == fromisoformat(ReplaceZ(StripQuotes(field)))
    IN  parsed.ok /\ parsed.tzinfo # None

Stored(r) == IsTranscribe(r) /\ r.status = 200 /\ r.body.segments # <<>>

\* C7 as stated: the stored timestamps of a chunk are the UTC instants its
\* fields denote.
C7_StoredInUtc ==
    Stored(last) =>
        /\ IsAware(last.request.timestamp_start) =>
              last.body.segments[1].timestamp_start
                 = UtcInstant(last.request.timestamp_start)
        /\ IsAware(last.request.timestamp_end) =>
              last.body.segments[1].timestamp_end
                 = UtcInstant(last.request.timestamp_end)

\* C8: an accepted chunk with text is stored and returned whatever the
\* embeddings API does; a segment without embedding is listed to its owner
\* and is in no result of a semantic search.
C8_EmbeddingBestEffort ==
    /\ [][(GateAccepted(last') /\ HasVisibleCharacter(last'.transcript_text)) =>
             /\ RowAdded
             /\ last'.status = 200
             /\ last'.body.segments = <<TranscriptSegment(NewRow)>>
             /\ "embed_text" \in Range(last'.calls)]_vars
    /\ [](\A t \in Rows :
             t.embedding = NoVector =>
                /\ \A listed \in get_transcripts(TokenOf(t.user_id), 10, 0, NoUuid) :
                      listed.status = 200
                      /\ TranscriptResponse(t) \in Range(listed.transcripts)
                /\ \A query \in {V10, V01} :
                   \A found \in vector_search(Rows, query, t.user_id, NoTime, NoTime, 10) :
                      t \notin Range(found))

\* A segment without embedding beside one with an embedding, of one user.
C8_Witness ==
    /\ Stored(last)
    /\ transcripts[Len(transcripts)].embedding = NoVector
    /\ \E t \in Rows : t.embedding # NoVector
                       /\ t.user_id = transcripts[Len(transcripts)].user_id

\* C9: a normal transcribe response has at most one segment, a filtered
\* count of 0 or 1, a session id exactly when it has a segment and exactly
\* when the request stored a row; a filtered chunk has neither.
C9_ResponseConsistent ==
    [][(IsTranscribe(last') /\ last'.status = 200) =>
          LET body == last'.body IN
          /\ Len(body.segments) \in {0, 1}
          /\ body.filtered_segments \in {0, 1}
          /\ (body.session_id # NoUuid) <=> (Len(body.segments) = 1)
          /\ (Len(body.segments) = 1) <=> RowAdded
          /\ RowAdded \/ transcripts' = transcripts
          /\ body.filtered_segments = 1 =>
                (body.segments = <<>> /\ transcripts' = transcripts)]_vars

C9_Witness ==
    /\ Stored(last)
    /\ last.body.session_id = transcripts[Len(transcripts)].session_id
    /\ last.body.filtered_segments = 0
    /\ Len(transcripts) = 2

\* C10 as stated: a chunk the transcription audio check refuses is answered
\* 400 before speaker verification, with nothing stored.
C10_FormatChecked ==
    [][(/\ IsTranscribe(last')
        /\ parse_timestamp(last'.request.timestamp_start).ok
        /\ parse_timestamp(last'.request.timestamp_end).ok
        /\ last'.request.audio.readable
        /\ users[last'.uid].registered
        /\ HasVoiceprint(last'.uid)
        /\ ~validate_transcription_audio(last'.request.audio).ok) =>
          /\ last'.status = 400
          /\ last'.calls = <<>>
          /\ transcripts' = transcripts]_vars

IsCompare(r) == r.op = "compare_embeddings"

Listed(r) == r.op = "get_transcripts" /\ r.status = 200

\* The caller's segments that pass the filter of a GET /transcripts request.
Filtered(r) ==
    {t \in Rows : /\ t.user_id = r.uid
                  /\ r.request.session_id # NoUuid =>
                        t.session_id = r.request.session_id}

\* C12 as stated: the total of a listing is the number of the caller's
\* segments that pass the filter of the page, the session filter included.
C12_TotalMatchesFilter ==
    Listed(last) => last.body.total = Cardinality(Filtered(last))

\* C13: the page of a listing holds min(limit, n - offset) distinct
\* segments, each one of the n segments of the caller that pass the session
\* filter, newest first, the i-th of which has rank offset + i among them by
\* descending timestamp_start.
C13_PageIsSlice ==
    Listed(last) =>
        LET M == Filtered(last)
            page == last.body.transcripts
            limit == last.request.limit
            offset == last.request.offset
            rest == IF Cardinality(M) > offset THEN Cardinality(M) - offset ELSE 0
        IN  /\ Len(page) = IF limit < rest THEN limit ELSE rest
            /\ \A i \in 1..Len(page) : \E t \in M : page[i] = TranscriptResponse(t)
            /\ \A i, j \in 1..Len(page) :
                  i < j => /\ page[i].id # page[j].id
                           /\ page[i].timestamp_start >= page[j].timestamp_start
            /\ \A i \in 1..Len(page) :
                  /\ Cardinality({t \in M : t.timestamp_start > page[i].timestamp_start})
                        <= offset + i - 1
                  /\ Cardinality({t \in M : t.timestamp_start >= page[i].timestamp_start})
                        >= offset + i

\* The second page of one session of a caller whose later chunk is the
\* older one, while another user owns a segment.
C13_Witness ==
    /\ Listed(last)
    /\ last.request.offset = 1 /\ last.request.limit = 1
    /\ last.request.session_id # NoUuid
    /\ Len(last.body.transcripts) = 1
    /\ \E t \in Filtered(last) :
          /\ t.id < last.body.transcripts[1].id
          /\ t.timestamp_start > last.body.transcripts[1].timestamp_start
    /\ \E t \in Rows : t.user_id # last.uid

IsParse(r) == r.op = "parse_time_filter"

\* The patterns in the order of precedence, and the window each one names.
PatternsInOrder ==
    <<TodayPattern, YesterdayPattern, ThisWeekPattern, LastWeekPattern,
      ThisMonthPattern, LastMonthPattern>>

WindowsInOrder ==
    <<"today", "yesterday", "this week", "last week", "this month", "last month">>

\* C15: the result of parse_time_filter is the window of the first pattern,
\* in the order today, yesterday, this week, last week, this month, last
\* month, that occurs in the lowercased query, and (None, None) exactly
\* when none occurs.
C15_FirstPatternWins ==
    IsParse(last) =>
        LET q == lower(last.query)
            occurs(k) == Contains(q, PatternsInOrder[k])
            first == {k \in 1..6 : occurs(k) /\ \A j \in 1..(k - 1) : ~occurs(j)}
        IN  /\ first = {} <=>
                  (last.result.start_utc = NoTime /\ last.result.end_utc = NoTime)
            /\ first = {} => last.result.window = None
            /\ \A k \in first :
                  /\ last.result.window = WindowsInOrder[k]
                  /\ last.result = parse_time_filter(PatternsInOrder[k],
                                       last.client_timezone, last.now_utc)

\* A query that names last month before today.
C15_Witness ==
    /\ IsParse(last)
    /\ last.query = LastMonthPattern \o <<" ">> \o TodayPattern
    /\ last.result.window = "today"
    /\ last.result.end_utc = last.now_utc

\* The zone parse_time_filter works in.
EffectiveZone(name) ==
    IF name \in {"UTC", "America/Denver", "Asia/Kolkata"} THEN name ELSE "UTC"

\* C17: the last month window runs from local midnight of the 1st of the
\* previous calendar month (1 December of the previous year in January) to
\* local midnight of the 1st of the current month, both on the UTC clock;
\* start < end, and the end is the start of this month at the same instant.
C17_LastMonthWindow ==
    (IsParse(last) /\ last.result.window = "last month") =>
        LET tz == EffectiveZone(last.client_timezone)
            today == date_of(last.now_utc + utcoffset_at_utc(tz, last.now_utc))
            first_of_month == datetime(today.year, today.month, 1, 0, 0)
            first_of_previous ==
                IF today.month = 1 THEN datetime(today.year - 1, 12, 1, 0, 0)
                ELSE datetime(today.year, today.month - 1, 1, 0, 0)
        IN  /\ last.result.start_utc
                  = first_of_previous - utcoffset_at_wall(tz, first_of_previous)
            /\ last.result.end_utc
                  = first_of_month - utcoffset_at_wall(tz, first_of_month)
            /\ last.result.start_utc < last.result.end_utc
            /\ last.result.end_utc
                  = parse_time_filter(ThisMonthPattern, last.client_timezone,
                                      last.now_utc).start_utc

\* Last month asked in America/Denver on 10 January 2024.
C17_Witness ==
    /\ IsParse(last)
    /\ last.result.window = "last month"
    /\ last.client_timezone = "America/Denver"
    /\ last.now_utc = datetime(2024, 1, 10, 12, 30)
    /\ last.result.start_utc = datetime(2023, 12, 1, 7, 0)
    /\ last.result.end_utc = datetime(2024, 1, 1, 7, 0)

IsContext(r) == r.op = "build_chat_context"

Entries(rows) == [i \in 1..Len(rows) |-> format_entry(rows[i])]

\* The size of the first k entries once joined by blank lines.
JoinedLen(entries, k) == Len(join(SubSeq(entries, 1, k)))

\* text is the first k - 1 entries and a cut k-th entry closed by an
\* ellipsis.
EndsTruncated(text, entries, k) ==
    LET head == JoinedLen(entries, k - 1) + (IF k > 1 THEN 2 ELSE 0)
        kept == Len(text) - head - 3
    IN  /\ kept >= 0 /\ kept < Len(entries[k])
        /\ text = join(Append(SubSeq(entries, 1, k - 1),
                              SubSeq(entries[k], 1, kept) \o Ellipsis))

\* C18: the context has at most max_tokens * 4 characters, and it is a run
\* of complete entries, in retrieval order and joined by blank lines,
\* closed at most by one entry that is cut and ends in an ellipsis.
C18_ContextBudget ==
    IsContext(last) =>
        LET entries == Entries(last.transcripts) IN
        /\ Len(last.context) <= last.max_tokens * 4
        /\ \/ \E k \in 0..Len(entries) :
                 last.context = join(SubSeq(entries, 1, k))
           \/ \E k \in 1..Len(entries) : EndsTruncated(last.context, entries, k)

\* Two entries fit and the third is cut.
C18_Witness ==
    /\ IsContext(last)
    /\ Len(last.transcripts) = 3
    /\ EndsTruncated(last.context, Entries(last.transcripts), 3)
    /\ Len(last.context) > last.max_tokens * 4 - 50

\* The first entry that takes the joined size over the budget, 0 if none.
FirstOverflow(entries, max_chars) ==
    IF \E k \in 1..Len(entries) : JoinedLen(entries, k) > max_chars
    THEN CHOOSE k \in 1..Len(entries) :
             /\ JoinedLen(entries, k) > max_chars
             /\ \A j \in 1..(k - 1) : JoinedLen(entries, j) <= max_chars
    ELSE 0

\* C19 as stated: the first entry that overflows the budget is cut, closed
\* by an ellipsis and included last, after the entries before it; without
\* overflow every entry is included; the first entry is always present.
C19_OverflowTruncated ==
    IsContext(last) =>
        LET entries == Entries(last.transcripts)
            k == FirstOverflow(entries, last.max_tokens * 4)
        IN  IF k = 0 THEN last.context = join(entries)
            ELSE EndsTruncated(last.context, entries, k)

\* C19, amended: formatting stops at the first entry that overflows the
\* budget; when more than 100 characters remain once the size in use and 50
\* more are taken off the budget, that entry is cut to that many, closed by
\* an ellipsis and included last, and otherwise it is left out; the entries
\* before it are all included, and so is every entry when none overflows;
\* the first entry is present when it fits or the budget exceeds 150.
C19_OverflowHandled ==
    IsContext(last) =>
        LET entries == Entries(last.transcripts)
            max_chars == last.max_tokens * 4
            k == FirstOverflow(entries, max_chars)
            used == JoinedLen(entries, k - 1) + (IF k > 1 THEN 2 ELSE 0)
            room == max_chars - used - 50
        IN  /\ IF k = 0 THEN last.context = join(entries)
               ELSE IF room > 100
               THEN /\ EndsTruncated(last.context, entries, k)
                    /\ Len(last.context) = used + room + 3
               ELSE last.context = join(SubSeq(entries, 1, k - 1))
            /\ (entries # <<>> /\ (max_chars > 150 \/ Len(entries[1]) <= max_chars)) =>
                  IF Len(entries[1]) <= max_chars
                  THEN /\ Len(last.context) >= Len(entries[1])
                       /\ SubSeq(last.context, 1, Len(entries[1])) = entries[1]
                  ELSE /\ Len(last.context) > 103
                       /\ SubSeq(last.context, 1, 101) = SubSeq(entries[1], 1, 101)

\* The second of three entries overflows and is cut; the third is absent.
C19_Witness ==
    /\ IsContext(last)
    /\ Len(last.transcripts) = 3
    /\ FirstOverflow(Entries(last.transcripts), last.max_tokens * 4) = 2
    /\ EndsTruncated(last.context, Entries(last.transcripts), 2)

IsStream(r) == r.op = "generate_sse_stream"

Citations(r) == SelectSeq(r.stream.events, LAMBDA e : e.type = "citation")

EndsWithEllipsis(text) ==
    Len(text) >= 3 /\ SubSeq(text, Len(text) - 2, Len(text)) = Ellipsis

\* C20 as stated: the snippet of every citation has at most 200
\* characters; it is the text when that has at most 200 characters and
\* otherwise a cut of the text closed by an ellipsis.
C20_SnippetWithin200 ==
    IsStream(last) =>
        \A i \in 1..Len(Citations(last)) :
            LET snippet == Citations(last)[i].text_snippet
                text == last.transcripts[i].transcript_text
            IN  /\ Len(snippet) <= 200
                /\ Len(text) <= 200 => snippet = text
                /\ Len(text) > 200 => EndsWithEllipsis(snippet)

\* C20, amended: the snippet of every citation has at most 203 characters;
\* it is the text when that has at most 200 characters and otherwise the
\* first 200 characters of the text followed by an ellipsis.
C20_SnippetWithin203 ==
    IsStream(last) =>
        \A i \in 1..Len(Citations(last)) :
            LET snippet == Citations(last)[i].text_snippet
                text == last.transcripts[i].transcript_text
            IN  /\ Len(snippet) <= 203
                /\ Len(text) <= 200 => snippet = text
                /\ Len(text) > 200 => snippet = SubSeq(text, 1, 200) \o Ellipsis

\* Five citations, one of them of a text of 201 characters.
C20_Witness ==
    /\ IsStream(last)
    /\ Len(Citations(last)) = 5
    /\ \E i \in 1..5 :
          /\ Len(last.transcripts[i].transcript_text) = 201
          /\ Len(Citations(last)[i].text_snippet) = 203

IsSearch(r) == r.op = "vector_search" \/ (r.op = "chat" /\ r.status = 200)

LimitOf(r) == IF r.op = "chat" THEN 10 ELSE r.limit

\* The rows a search may return: the user's own, embedded, within the
\* bounds that are present.
Eligible(r) ==
    {t \in Rows :
        /\ t.user_id = r.uid
        /\ t.embedding # NoVector
        /\ r.time_filter.start_utc # NoTime =>
              r.time_filter.start_utc <= t.timestamp_start
        /\ r.time_filter.end_utc # NoTime =>
              t.timestamp_start <= r.time_filter.end_utc}

\* C14: a search returns at most limit distinct segments, all eligible, in
\* the order of ascending distance to the query, and every eligible segment
\* it leaves out is at least as far as each one it returns, the limit
\* being reached.
C14_SearchResult ==
    IsSearch(last) =>
        LET found == last.transcripts
            Distance(t) == cosine_distance(t.embedding, last.query_embedding)
        IN  /\ Len(found) <= LimitOf(last)
            /\ \A i \in 1..Len(found) : found[i] \in Eligible(last)
            /\ \A i, j \in 1..Len(found) :
                  i < j => /\ found[i] # found[j]
                           /\ Distance(found[i]) <= Distance(found[j])
            /\ \A t \in Eligible(last) \ Range(found) :
                  /\ Len(found) = LimitOf(last)
                  /\ \A i \in 1..Len(found) : Distance(found[i]) <= Distance(t)

\* A search with both bounds and limit 1 returns the nearer of two
\* eligible segments, one of them stamped at the end bound.
C14_Witness ==
    /\ last.op = "vector_search"
    /\ last.limit = 1 /\ Len(last.transcripts) = 1
    /\ last.time_filter.start_utc # NoTime /\ last.time_filter.end_utc # NoTime
    /\ \E t \in Eligible(last) :
          /\ cosine_distance(t.embedding, last.query_embedding)
                > cosine_distance(last.transcripts[1].embedding, last.query_embedding)
          /\ t.timestamp_start = last.time_filter.end_utc

AsksYesterday(r) ==
    /\ r.op = "chat" /\ r.status = 200
    /\ Contains(lower(r.request.message), YesterdayPattern)
    /\ ~Contains(lower(r.request.message), TodayPattern)

\* Local midnight of the day that is `days` days before the caller's
\* current local day, on the UTC clock.
LocalMidnightUtc(r, days) ==
    LET tz == EffectiveZone(r.request.timezone)
        now_local == r.request.now_utc + utcoffset_at_utc(tz, r.request.now_utc)
        midnight == now_local - (now_local % 1440) - days * 1440
    IN  midnight - utcoffset_at_wall(tz, midnight)

YesterdayWindow(r) ==
    /\ r.time_filter.start_utc = LocalMidnightUtc(r, 1)
    /\ r.time_filter.end_utc = LocalMidnightUtc(r, 0)

\* C16 as stated: the window of a yesterday query runs from local midnight
\* of the previous day to local midnight of the current day, in UTC, and
\* the segments retrieved start within local yesterday: none is stamped at
\* the current day's local midnight.
C16_YesterdayOnly ==
    AsksYesterday(last) =>
        /\ YesterdayWindow(last)
        /\ \A i \in 1..Len(last.transcripts) :
              /\ LocalMidnightUtc(last, 1) <= last.transcripts[i].timestamp_start
              /\ last.transcripts[i].timestamp_start < LocalMidnightUtc(last, 0)

\* C16, amended: the same window; the segments retrieved start within it,
\* both ends included, and the caller's embedded segments stamped exactly
\* at the current day's local midnight are retrieved.
C16_YesterdayThroughMidnight ==
    AsksYesterday(last) =>
        /\ YesterdayWindow(last)
        /\ \A i \in 1..Len(last.transcripts) :
              /\ LocalMidnightUtc(last, 1) <= last.transcripts[i].timestamp_start
              /\ last.transcripts[i].timestamp_start <= LocalMidnightUtc(last, 0)
        /\ \A t \in Rows :
              (/\ t.user_id = last.uid /\ t.embedding # NoVector
               /\ t.timestamp_start = LocalMidnightUtc(last, 0))
                 => t \in Range(last.transcripts)

\* A yesterday query in Denver retrieves the segment stamped at today's
\* local midnight and not the one a minute later.
C16_Witness ==
    /\ AsksYesterday(last)
    /\ last.request.timezone = "America/Denver"
    /\ last.time_filter.start_utc = YesterdayStart
    /\ last.time_filter.end_utc = TodayStart
    /\ \E i \in 1..Len(last.transcripts) :
          last.transcripts[i].timestamp_start = TodayStart
    /\ \E t \in Rows : t.user_id = last.uid /\ t.timestamp_start = TodayStart + 1

Events(r) == r.stream.events

\* The non-empty contents among the deltas the completions API streamed.
NonEmptyDeltas(r) == SelectSeq(r.api.deltas, LAMBDA delta : delta # "")

CitedCount(r) == IF Len(r.transcripts) < 5 THEN Len(r.transcripts) ELSE 5

\* C21: when the generation succeeds the events are one text event per
\* non-empty chunk, in generation order, then one citation per segment for
\* the first min(5, n) retrieved segments, in retrieval order, then one done
\* event, and nothing else.
C21_EventOrder ==
    (IsStream(last) /\ ~last.api.raises) =>
        LET k == Len(NonEmptyDeltas(last))
            m == CitedCount(last)
        IN  /\ Len(Events(last)) = k + m + 1
            /\ \A i \in 1..k :
                  Events(last)[i] = [type |-> "text",
                                     content |-> NonEmptyDeltas(last)[i]]
            /\ \A i \in 1..m :
                  /\ Events(last)[k + i].type = "citation"
                  /\ Events(last)[k + i].transcript_id = last.transcripts[i].id
            /\ Events(last)[k + m + 1] = [type |-> "done"]

\* Four deltas, one of them empty and two of them equal, and six retrieved
\* segments: three text events, five citations and the done event.
C21_Witness ==
    /\ IsStream(last) /\ ~last.api.raises
    /\ Len(last.api.deltas) = 4 /\ Len(NonEmptyDeltas(last)) = 3
    /\ Len(last.transcripts) = 6
    /\ Len(Events(last)) = 9
    /\ Events(last)[9].type = "done"

\* C22: when the generation raises, before the first chunk or after some,
\* the events are the text events already forwarded and then one error
\* event, with no citation and no done event; every stream ends with one
\* event that is done or error and holds no other such event.
C22_ErrorEndsStream ==
    IsStream(last) =>
        LET n == Len(Events(last)) IN
        /\ n >= 1
        /\ Events(last)[n].type \in {"done", "error"}
        /\ \A i \in 1..(n - 1) : Events(last)[i].type \notin {"done", "error"}
        /\ last.api.raises =>
              /\ Events(last)[n].type = "error"
              /\ n = Len(NonEmptyDeltas(last)) + 1
              /\ \A i \in 1..(n - 1) :
                    Events(last)[i] = [type |-> "text",
                                       content |-> NonEmptyDeltas(last)[i]]

\* The generation raises after two chunks were forwarded, with segments
\* retrieved: two text events and the error event.
C22_Witness ==
    /\ IsStream(last) /\ last.api.raises
    /\ Len(last.transcripts) > 0
    /\ Len(Events(last)) = 3
    /\ Events(last)[1].type = "text" /\ Events(last)[2].type = "text"
    /\ Events(last)[3].type = "error"

\* C23: a chat request of a registered user whose query the embeddings API
\* fails to embed ends with status 500 after the embedding call alone: no
\* search result and no stream exist.
C23_EmbeddingFailureFatal ==
    (last.op = "chat" /\ users[last.uid].registered /\ ~last.embedded.ok) =>
        /\ last.status = 500
        /\ last.calls = <<"embed_text">>
        /\ "transcripts" \notin DOMAIN last
        /\ "stream" \notin DOMAIN last

\* The embedding fails for a caller who has an embedded segment stored.
C23_Witness ==
    /\ last.op = "chat" /\ last.status = 500 /\ ~last.embedded.ok
    /\ \E t \in Rows : t.user_id = last.uid /\ t.embedding # NoVector

EnrollSucceeded(uid) ==
    last.op = "enroll" /\ last.uid = uid /\ last.status = 200

\* C24: in every step, a voiceprint that is set stays set; a successful
\* enroll leaves the caller's voiceprint equal to the embedding extracted
\* from its audio; a failed enroll changes no user; and a voiceprint
\* changes in no other step than the owner's successful enroll.
C24_VoiceprintLifecycle ==
    [][\A uid \in FirebaseUids :
          /\ HasVoiceprint(uid) => HasVoiceprint(uid)'
          /\ EnrollSucceeded(uid)' =>
                /\ users[uid].registered
                /\ users'[uid].voiceprint_embedding = last'.request.voice.value
                /\ last'.request.voice.value # NoVector
          /\ (last'.op = "enroll" /\ last'.status # 200) => users' = users
          /\ (users[uid].registered /\ ~EnrollSucceeded(uid)') =>
                users'[uid].voiceprint_embedding = users[uid].voiceprint_embedding
      ]_vars

\* A user whose chunk was accepted under the first voice has enrolled
\* again with the second one.
C24_Witness ==
    /\ EnrollSucceeded("u1")
    /\ users["u1"].voiceprint_embedding = V01
    /\ \E t \in Rows : t.user_id = "u1"

\* The segment a task's request carries is stored.
SegmentStored(task) ==
    \E t \in Rows :
        /\ t.user_id = tasks[task].user.id
        /\ t.timestamp_start = tasks[task].timestamp_start
        /\ t.transcript_text = tasks[task].transcript_text

\* C25 as stated: the embedding is attempted after the segment's text is
\* persisted, so a request whose embedding call has begun, and one that
\* stopped during that call, has stored its segment.
C25_EmbeddingAfterPersistence ==
    \A task \in Tasks :
        (tasks[task].pc \in {"commit", "stopped"}
         /\ "embed_text" \in Range(tasks[task].calls)) => SegmentStored(task)

\* C26: the session id of a request is the one its own read determines
\* from the rows committed at that moment (none of the user's: a new id;
\* otherwise by the gap to a row with the latest end), it is not read
\* again, and the row the request commits carries it whatever was
\* committed in between.
C26_SessionFromOwnRead ==
    [][\A task \in Tasks :
          /\ (tasks[task].pc = "get_or_create_session_id"
              /\ tasks'[task].pc = "embed_text") =>
                LET mine == RowsOf(Rows, tasks[task].user.id)
                    fresh == /\ tasks'[task].session_id = uuid_counter + 1
                             /\ uuid_counter' = uuid_counter + 1
                IN  IF mine = {} THEN fresh
                    ELSE \E latest \in mine :
                            /\ \A o \in mine : o.timestamp_end <= latest.timestamp_end
                            /\ IF tasks[task].timestamp_start - latest.timestamp_end
                                     > SESSION_GAP_MINUTES
                               THEN fresh
                               ELSE /\ tasks'[task].session_id = latest.session_id
                                    /\ uuid_counter' = uuid_counter
          /\ (tasks[task].pc \in {"embed_text", "commit"}
              /\ tasks'[task].pc \in {"embed_text", "commit", "stopped"}) =>
                tasks'[task].session_id = tasks[task].session_id
          /\ (tasks[task].pc = "commit" /\ tasks'[task] = Idle) =>
                /\ Len(transcripts') = Len(transcripts) + 1
                /\ transcripts'[Len(transcripts')].session_id = tasks[task].session_id
      ]_vars

\* Two first chunks of one user, three minutes apart, stored under two
\* session ids: both were read before either was committed.
C26_Witness ==
    /\ Len(transcripts) = 2
    /\ transcripts[1].user_id = transcripts[2].user_id
    /\ {transcripts[1].timestamp_start, transcripts[2].timestamp_start} = {0, 3}
    /\ transcripts[1].session_id # transcripts[2].session_id

\* C27 as stated: a handle that is retained is never replaced, and a call
\* that starts after a handle is retained returns that handle.
C27_HandleCreatedOnce ==
    [][/\ \A accessor \in Accessors :
             handles[accessor] # NoHandle => handles'[accessor] = handles[accessor]
       /\ \A task \in Tasks :
             (tasks[task].pc = "return" /\ tasks'[task].pc = "returned"
              /\ tasks[task].retained_at_start # NoHandle) =>
                tasks'[task].returned = tasks[task].retained_at_start
      ]_vars

Looked(r) == r.op = "reverse_geocode"

C29_OneRowPerIdentity ==
    /\ [](\A uid \in FirebaseUids : Cardinality(UserRowsOf(user_rows, uid)) <= 1)
    /\ [](\A i \in 1..Len(user_rows) : user_rows[i].email # <<>>)
    /\ [][/\ (last'.op = "register" \/ tasks' # tasks) =>
                /\ Len(user_rows') >= Len(user_rows)
                /\ \A i \in 1..Len(user_rows) : user_rows'[i] = user_rows[i]
          /\ (last'.op = "register" /\ tasks' = tasks) =>
                LET found == UserRowsOf(user_rows, last'.uid) IN
                /\ user_rows' = user_rows
                /\ IF found # {}
                   THEN /\ last'.status = 200
                        /\ last'.body.created = FALSE
                        /\ \E i \in found :
                              /\ last'.body.user_id = user_rows[i].id
                              /\ last'.body.is_enrolled =
                                    (user_rows[i].voiceprint_embedding # NoVector)
                   ELSE /\ last'.status = 400
                        /\ last'.request.email = <<>>
          /\ \A task \in Tasks :
                (tasks[task].pc = "commit" /\ tasks'[task] = Idle
                 /\ UserRowsOf(user_rows, tasks[task].fb.uid) # {}) =>
                    user_rows' = user_rows /\ last'.status = 500
      ]_vars

\* Two first registrations of one identity overlapped: one row was written
\* and the later commit was refused, while the other task still has a
\* registration of another identity in flight.
C29_Witness ==
    /\ last.op = "register" /\ last.status = 500
    /\ Cardinality(UserRowsOf(user_rows, last.uid)) = 1
    /\ Len(user_rows) = 1

ZeroDeclared(st) ==
    /\ st.raised = NoException /\ st.fmt_found /\ st.data_found
    /\ (st.channels = 0 \/ st.sample_rate = 0 \/ st.bits_per_sample < 8)

\* C30: validate_wav_audio leaves for every byte string; each iteration of
\* its loop moves the header on by at least 8 bytes or is the last one, and
\* the header never passes the end; the function either returns metadata
\* with min_duration * sample_rate <= num_samples <= max_duration *
\* sample_rate (the duration within both bounds, the bounds included) or
\* raises AudioValidationError, never another exception; a header cut short
\* inside a chunk, or one that declares zero channels, zero sample rate or
\* fewer than 8 bits per sample, ends in AudioValidationError PARSE_ERROR.
C30_ValidationTotal ==
    /\ <>(last.op = "validate_wav_audio")
    /\ [][(last.op = "while" /\ last'.op = "while") =>
             /\ last'.st.pos <= Len(last.arguments.audio_bytes)
             /\ \/ last'.st.pos >= last.st.pos + 8
                \/ ~in_loop(last'.arguments.audio_bytes, last'.st)
      ]_vars
    /\ [](last.op = "validate_wav_audio" =>
             /\ last.raised.type \in {None, "AudioValidationError"}
             /\ (last.raised.type = None) = last.returned.ok
             /\ last.returned.ok =>
                   LET metadata == last.returned.value IN
                   /\ metadata.sample_rate > 0
                   /\ metadata.num_samples >=
                         last.arguments.min_duration_seconds * metadata.sample_rate
                   /\ metadata.num_samples <=
                         last.arguments.max_duration_seconds * metadata.sample_rate
             /\ (ZeroDeclared(last.st) \/ last.st.raised.type = "struct.error") =>
                   last.raised = AudioValidationError("PARSE_ERROR"))

\* A file of at least 44 bytes whose fmt chunk is cut short after an
\* unknown chunk was skipped has been refused.
C30_Witness ==
    /\ last.op = "validate_wav_audio"
    /\ Len(last.arguments.audio_bytes) >= 44
    /\ last.iterations = 2
    /\ last.st.fmt_found
    /\ last.st.raised.type = "struct.error"
    /\ last.raised = AudioValidationError("PARSE_ERROR")

====
